---- MODULE Spec2Model ----
(***************************************************************************)
(* A model of the feed builder of WatchCTV/SmartNews (scripts/build-feed   *)
(* .mjs and its sibling revisions).                                        *)
(*                                                                         *)
(* The program is a chain of regular-expression rewrites over text.  Text  *)
(* is modelled at two levels, both as sequences:                           *)
(*   - a DOCUMENT is a sequence of tokens, one per tag, per run of         *)
(*     character data, or per simple element whose inner text the program  *)
(*     rewrites (title, link, description, content:encoded);               *)
(*   - the inner TEXT of such an element, of a URL, of an attribute value  *)
(*     is a sequence of symbols (strings), one per lexical unit: "<", ">", *)
(*     "&", "lt;", a tag name, an attribute, a letter "t", a blank " ".    *)
(* Each regular expression of the source is an operator that finds the     *)
(* same matches on these sequences, leftmost first, lazy or greedy as the  *)
(* source has it, and a global replace scans left to right over the        *)
(* unreplaced input as String.prototype.replace does.                      *)
(***************************************************************************)
EXTENDS Integers, Sequences, FiniteSets, TLC

VARIABLES pc, src, web, xml, items, idx, requests, err, file, exitCode

vars == <<pc, src, web, xml, items, idx, requests, err, file, exitCode>>

(***************************************************************************)
(* Sequence helpers.                                                       *)
(***************************************************************************)
Min(a, b) == IF a < b THEN a ELSE b

\* s.slice(from - 1, to) of the source: the elements from..to, clipped.
Slice(s, from, to) ==
  IF from > to \/ from > Len(s) THEN <<>> ELSE SubSeq(s, from, Min(to, Len(s)))

\* The first index i >= from with s[i] in the set P, or 0.
FirstIn(s, from, P) ==
  LET hits == {i \in from..Len(s) : s[i] \in P}
  IN IF hits = {} THEN 0 ELSE CHOOSE i \in hits : \A j \in hits : i <= j

\* A global replace: m[i] is the length of the match that starts at i (0 for
\* none) and r[i] what replaces it; the scan resumes after each match.
Subst(s, m, r) ==
  LET n == Len(s)
      f[i \in 1..(n + 1)] ==
        IF i > n THEN <<>>
        ELSE IF m[i] > 0 THEN r[i] \o f[i + m[i]]
        ELSE <<s[i]>> \o f[i + 1]
  IN f[1]

\* A replace without the g flag: only the leftmost match is replaced.
SubstFirst(s, m, r) ==
  LET hits == {i \in 1..Len(s) : m[i] > 0}
  IN IF hits = {} THEN s
     ELSE LET i == CHOOSE h \in hits : \A j \in hits : h <= j
          IN Slice(s, 1, i - 1) \o r[i] \o Slice(s, i + m[i], Len(s))

\* Array.prototype.join over a sequence of sequences.
Join(ss, sep) ==
  LET f[i \in 0..Len(ss)] ==
        IF i = 0 THEN <<>>
        ELSE IF i = 1 THEN ss[1]
        ELSE f[i - 1] \o sep \o ss[i]
  IN f[Len(ss)]

(***************************************************************************)
(* Document tokens.                                                        *)
(*   k     "decl" | "open" | "close" | "self" | "text" | "field"           *)
(*   pfx   the namespace prefix as written ("" for none), name the local   *)
(*         name                                                            *)
(*   attrs the attributes in source order, each [n, p, v, q]: n the        *)
(*         attribute name ("xmlns" with p the declared prefix), v its      *)
(*         value as symbols, q the quote character                         *)
(*   sp    a self-closing tag has white space or attributes before "/"     *)
(*   form  of a field: how its inner text is wrapped, "cdata" (exactly     *)
(*         <![CDATA[..]]>), "cdata_ws" (the same inside white space) or    *)
(*         "raw"; a field stands for <pfx:name>text</pfx:name>             *)
(*   text  the character data of a text token, the inner text of a field   *)
(***************************************************************************)
Tok(k, pfx, name, attrs, sp, form, text) ==
  [k |-> k, pfx |-> pfx, name |-> name, attrs |-> attrs, sp |-> sp,
   form |-> form, text |-> text]

Attr(n, v) == [n |-> n, p |-> "", v |-> v, q |-> "dq"]
XmlnsAttr(p, uri, q) == [n |-> "xmlns", p |-> p, v |-> <<uri>>, q |-> q]

Open(pfx, name, attrs) == Tok("open", pfx, name, attrs, FALSE, "", <<>>)
Close(pfx, name) == Tok("close", pfx, name, <<>>, FALSE, "", <<>>)
SelfC(pfx, name, attrs, sp) == Tok("self", pfx, name, attrs, sp, "", <<>>)
Text(v) == Tok("text", "", "", <<>>, FALSE, "", <<v>>)
Field(pfx, name, form, text) == Tok("field", pfx, name, <<>>, FALSE, form, text)
XmlDecl == Tok("decl", "", "xml", <<>>, FALSE, "", <<>>)

WhiteSpace == {" ", "\n"}
IsWs(t) == t.k = "text" /\ t.text[1] \in WhiteSpace
IsTag(t) == t.k \in {"open", "self"}

\* String.prototype.toLowerCase on the prefixes and names the model uses.
toLowerCase(p) ==
  CASE p = "SNF" -> "snf"
    [] p = "Media" -> "media"
    [] p = "Foo" -> "foo"
    [] p = "RSS" -> "rss"
    [] OTHER -> p

HasAttr(t, n) == \E a \in 1..Len(t.attrs) : t.attrs[a].n = n
\* The value of the last attribute n of the tag (a greedy [^>]+ before "n="
\* backtracks from the end of the tag).
AttrVal(t, n) ==
  LET hits == {a \in 1..Len(t.attrs) : t.attrs[a].n = n}
  IN t.attrs[CHOOSE a \in hits : \A b \in hits : b <= a].v

\* What String.prototype.replace makes of a replacement text given as a
\* string: "$$" stands for one "$".  The texts of the model hold "$" before
\* "$", before a digit and before a blank only, which make no other pattern
\* of a replace without capture groups.
Substitute(s) ==
  Subst(s, [i \in 1..Len(s) |-> IF s[i] = "$" /\ i < Len(s) /\ s[i + 1] = "$" THEN 2 ELSE 0],
        [i \in 1..Len(s) |-> <<"$">>])

\* The same on a replacement that is a run of tokens: on the character data,
\* the inner texts and the attribute values.
GetSubstitution(rep) ==
  [i \in 1..Len(rep) |->
     [rep[i] EXCEPT !.text = Substitute(rep[i].text),
                    !.attrs = [a \in 1..Len(rep[i].attrs) |->
                                 [rep[i].attrs[a] EXCEPT !.v = Substitute(rep[i].attrs[a].v)]]]]

(***************************************************************************)
(* Configuration (build-feed.mjs, CONFIG).                                 *)
(***************************************************************************)
FEED_SELF_URL == <<"https://", "ctv-clearlink.github.io", "/RSS-Feed/feed", ".xml">>
ALLOWED_NS_PREFIXES == {"media", "content", "dc", "atom"}
SMARTNEWS_URI == "http://www.smartnews.be/snf"

\* The start tag main writes in place of the source's <rss ...>.
RssStartTag ==
  Open("", "rss",
       <<Attr("version", <<"2.0">>),
         XmlnsAttr("media", "http://search.yahoo.com/mrss/", "dq"),
         XmlnsAttr("content", "http://purl.org/rss/1.0/modules/content/", "dq"),
         XmlnsAttr("dc", "http://purl.org/dc/elements/1.1/", "dq"),
         XmlnsAttr("atom", "http://www.w3.org/2005/Atom", "dq")>>)

\* The self link main inserts: href first, then rel, then type.
SelfLinkTag ==
  SelfC("atom", "link",
        <<Attr("href", FEED_SELF_URL), Attr("rel", <<"self">>),
          Attr("type", <<"application/rss+xml">>)>>, TRUE)

(***************************************************************************)
(* main, the normalizer steps.                                             *)
(***************************************************************************)
\* The root test that accepts every payload.
AnyRoot(x) == TRUE

\* /<rss\b/i.test(xml)
HasRssRoot(x) ==
  \E i \in 1..Len(x) : IsTag(x[i]) /\ x[i].pfx = "" /\ toLowerCase(x[i].name) = "rss"

\* xml.replace(/^\uFEFF/, "").replace(/^\s*<\?xml[^>]*\?>\s*/i, "") and the
\* single declaration put in front.
NormalizeDecl(x) ==
  LET lead == {i \in 1..Len(x) : \A j \in 1..(i - 1) : IsWs(x[j])}
      d == {i \in lead : x[i].k = "decl"}
      rest(i) == LET after == {j \in (i + 1)..(Len(x) + 1) :
                                 \A h \in (i + 1)..(j - 1) : IsWs(x[h])}
                     e == CHOOSE j \in after : \A h \in after : h <= j
                 IN Slice(x, e, Len(x))
  IN <<XmlDecl, Text("\n")>> \o
     (IF d = {} THEN x ELSE rest(CHOOSE i \in d : TRUE))

\* xml.replace(/\s+xmlns:([a-z0-9_-]+)="([^"]*)"/gi, ...): every xmlns
\* declaration in double quotes whose URI is the SmartNews one is dropped.
StripSmartNewsXmlns(x) ==
  [i \in 1..Len(x) |->
     [x[i] EXCEPT !.attrs =
        SelectSeq(x[i].attrs,
                  LAMBDA a : ~(a.n = "xmlns" /\ a.q = "dq" /\ a.v = <<SMARTNEWS_URI>>))]]

\* A tag, closing tag or field of the snf prefix, in any case.
IsSnf(t) == toLowerCase(t.pfx) = "snf"

\* xml.replace(/<snf:[^>]*>[\s\S]*?<\/snf:[^>]*>/gi, "")
StripSnfBlocks(x) ==
  LET n == Len(x)
      closer(i) ==
        LET c == {j \in (i + 1)..n : x[j].k \in {"close", "field"} /\ IsSnf(x[j])}
        IN IF c = {} THEN 0 ELSE CHOOSE j \in c : \A h \in c : j <= h
      m == [i \in 1..n |->
              IF x[i].k = "field" /\ IsSnf(x[i]) THEN 1
              ELSE IF IsTag(x[i]) /\ IsSnf(x[i]) /\ closer(i) # 0
              THEN closer(i) - i + 1 ELSE 0]
  IN Subst(x, m, [i \in 1..n |-> <<>>])

\* xml.replace(/<snf:[^>]*\/\s*>/gi, "")
StripSnfSelfClosing(x) ==
  SelectSeq(x, LAMBDA t : ~(t.k = "self" /\ IsSnf(t)))

\* xml.replace(/<rss[^>]*>/i, '<rss version="2.0" xmlns:media=... >')
RebuildRoot(x) ==
  LET n == Len(x)
      m == [i \in 1..n |->
              IF IsTag(x[i]) /\ x[i].pfx = "" /\ toLowerCase(x[i].name) = "rss"
              THEN 1 ELSE 0]
  IN SubstFirst(x, m, [i \in 1..n |-> <<RssStartTag>>])

Allowed(t) == toLowerCase(t.pfx) \in ALLOWED_NS_PREFIXES

\* <([a-zA-Z0-9_-]+):([a-zA-Z0-9._-]+)(\s[^>]*)?> at token i: a start tag
\* with a prefix, or a self-closing one whose "/" the group (\s[^>]*)
\* swallows, which takes white space after the name.
IsPrefixedStart(t) ==
  t.pfx # "" /\ (t.k = "open" \/ (t.k = "self" /\ t.sp))

\* xml.replace(/<(pfx):(name)(\s[^>]*)?>[\s\S]*?<\/\1:\2\s*>/g,
\*             (m, pfx) => ALLOWED_NS_PREFIXES.includes(pfx.toLowerCase()) ? m : "")
StripDisallowedBlocks(x) ==
  LET n == Len(x)
      closer(i) ==
        LET c == {j \in (i + 1)..n :
                    /\ x[j].k \in {"close", "field"}
                    /\ x[j].pfx = x[i].pfx /\ x[j].name = x[i].name}
        IN IF c = {} THEN 0 ELSE CHOOSE j \in c : \A h \in c : j <= h
      m == [i \in 1..n |->
              IF x[i].k = "field" /\ x[i].pfx # "" THEN 1
              ELSE IF IsPrefixedStart(x[i]) /\ closer(i) # 0
              THEN closer(i) - i + 1 ELSE 0]
      r == [i \in 1..n |->
              IF Allowed(x[i]) THEN Slice(x, i, i + m[i] - 1) ELSE <<>>]
  IN Subst(x, m, r)

\* xml.replace(/<(pfx):(name)(\s[^>]*)?\/\s*>/g, same callback)
StripDisallowedSelfClosing(x) ==
  SelectSeq(x, LAMBDA t : ~(t.k = "self" /\ t.pfx # "" /\ ~Allowed(t)))

\* Lines 44-75 of main in order.
NormalizeNamespaces(x) ==
  StripDisallowedSelfClosing(
    StripDisallowedBlocks(
      RebuildRoot(
        StripSnfSelfClosing(
          StripSnfBlocks(
            StripSmartNewsXmlns(
              NormalizeDecl(x)))))))

\* <atom:link[^>]+rel=["']self["'] at a tag.
IsAtomLink(t) == toLowerCase(t.pfx) = "atom" /\ toLowerCase(t.name) = "link"
HasRelSelf(t) ==
  \E a \in 1..Len(t.attrs) : t.attrs[a].n = "rel" /\ t.attrs[a].v = <<"self">>

\* .replace(/<atom:link[^>]+rel=["']self["'][^>]*\/>\s*/gi, "")
RemoveSelfLinks(x) ==
  LET n == Len(x)
      wsEnd(i) ==
        LET e == {j \in i..n : \A h \in (i + 1)..j : IsWs(x[h])}
        IN CHOOSE j \in e : \A h \in e : h <= j
      m == [i \in 1..n |->
              IF x[i].k = "self" /\ IsAtomLink(x[i]) /\ HasRelSelf(x[i])
              THEN wsEnd(i) - i + 1 ELSE 0]
  IN Subst(x, m, [i \in 1..n |-> <<>>])

\* .replace(/<channel>(?![\s\S]*?<atom:link[^>]+rel=["']self["'])/i,
\*          `<channel>\n    <atom:link href="${FEED_SELF_URL}" rel="self" ... />`)
IsChannelStart(t, anyCase) ==
  /\ t.k = "open" /\ t.pfx = "" /\ t.attrs = <<>>
  /\ (IF anyCase THEN toLowerCase(t.name) ELSE t.name) = "channel"

InsertSelfLink(x) ==
  LET n == Len(x)
      later(i) == \E j \in (i + 1)..n :
                    IsTag(x[j]) /\ IsAtomLink(x[j]) /\ HasRelSelf(x[j])
      m == [i \in 1..n |-> IF IsChannelStart(x[i], TRUE) /\ ~later(i) THEN 1 ELSE 0]
      r == [i \in 1..n |-> <<x[i], Text("\n"), SelfLinkTag>>]
  IN SubstFirst(x, m, r)

EnsureSelfLink(x) == InsertSelfLink(RemoveSelfLinks(x))

(***************************************************************************)
(* limitItems.                                                             *)
(***************************************************************************)
IsItemStart(t) == t.k = "open" /\ t.pfx = "" /\ t.name = "item" /\ t.attrs = <<>>
IsItemEnd(t) == t.k = "close" /\ t.pfx = "" /\ t.name = "item"

\* The end of the match of /<item>[\s\S]*?<\/item>/ that starts at i, or 0.
ItemEnd(x, i) ==
  IF ~IsItemStart(x[i]) THEN 0
  ELSE LET c == {j \in (i + 1)..Len(x) : IsItemEnd(x[j])}
       IN IF c = {} THEN 0 ELSE CHOOSE j \in c : \A h \in c : j <= h

\* xml.match(/<item>[\s\S]*?<\/item>/g) || []: the matches in order, as
\* pairs <<first, last>> of token positions.
ItemSpans(x) ==
  LET n == Len(x)
      f[i \in 1..(n + 1)] ==
        IF i > n THEN <<>>
        ELSE IF ItemEnd(x, i) # 0 THEN <<<<i, ItemEnd(x, i)>>>> \o f[ItemEnd(x, i) + 1]
        ELSE f[i + 1]
  IN f[1]

MatchItems(x) ==
  LET sp == ItemSpans(x)
  IN [j \in 1..Len(sp) |-> SubSeq(x, sp[j][1], sp[j][2])]

limitItems(x, limit) ==
  LET its == MatchItems(x)
      n == Len(x)
      keep == Join(SubSeq(its, 1, limit), <<Text("\n")>>)
      chEnd(i) ==
        LET c == {j \in (i + 1)..n : x[j].k = "close" /\ x[j].pfx = "" /\ x[j].name = "channel"}
        IN IF c = {} THEN 0 ELSE CHOOSE j \in c : \A h \in c : j <= h
      m == [i \in 1..n |->
              IF IsChannelStart(x[i], FALSE) /\ chEnd(i) # 0 THEN chEnd(i) - i + 1 ELSE 0]
      header(i) ==
        LET it == {j \in i..(i + m[i] - 1) : IsItemStart(x[j])}
            stop == IF it = {} THEN i + m[i] ELSE CHOOSE j \in it : \A h \in it : j <= h
        IN Slice(x, i, stop - 1)
      r == [i \in 1..n |-> header(i) \o keep \o <<Text("\n"), Close("", "channel")>>]
  IN IF Len(its) <= limit THEN x ELSE SubstFirst(x, m, r)

(***************************************************************************)
(* Text helpers.  A text is a sequence of symbols; "<" name attrs ">" is a *)
(* tag, "&" followed by an entity name is a character reference.           *)
(***************************************************************************)
Blank == {" ", "\n", "\t"}

\* The closing tag of each element name the rewrites look for.
EndTag ==
  [nav |-> "/nav", footer |-> "/footer", aside |-> "/aside", header |-> "/header",
   script |-> "/script", style |-> "/style", div |-> "/div", section |-> "/section",
   ul |-> "/ul", ol |-> "/ol", table |-> "/table", a |-> "/a", sup |-> "/sup",
   p |-> "/p", h1 |-> "/h1", h2 |-> "/h2", h3 |-> "/h3", h4 |-> "/h4",
   h5 |-> "/h5", h6 |-> "/h6", figcaption |-> "/figcaption",
   caption |-> "/caption", small |-> "/small"]

Headings == {"h1", "h2", "h3", "h4", "h5", "h6"}
HeadingEnds == {"/h1", "/h2", "/h3", "/h4", "/h5", "/h6"}

\* s[i..] starts with "<" nm ">", a closing tag written without blanks.
EndTagAt(s, i, nm) ==
  i >= 1 /\ i + 2 <= Len(s) /\ s[i] = "<" /\ s[i + 1] = nm /\ s[i + 2] = ">"

\* The first closing tag </nm> at or after from, or 0.
FirstEndTag(s, from, nm) ==
  LET c == {j \in from..Len(s) : EndTagAt(s, j, nm)}
  IN IF c = {} THEN 0 ELSE CHOOSE j \in c : \A h \in c : j <= h

\* <name[^>]*> at i: the position of its ">", or 0.
StartTagEnd(s, i, names) ==
  IF i + 1 <= Len(s) /\ s[i] = "<" /\ s[i + 1] \in names
  THEN FirstIn(s, i + 2, {">"}) ELSE 0

\* The end of the run of blanks that starts at i (i - 1 when s[i] is none).
BlankRunEnd(s, i) ==
  LET e == {j \in (i - 1)..Len(s) : \A h \in i..j : s[h] \in Blank}
  IN CHOOSE j \in e : \A h \in e : h <= j

\* String.prototype.trim
Trim(s) ==
  LET keep == {i \in 1..Len(s) : s[i] \notin Blank}
  IN IF keep = {} THEN <<>>
     ELSE SubSeq(s, CHOOSE i \in keep : \A j \in keep : i <= j,
                    CHOOSE i \in keep : \A j \in keep : j <= i)

\* s.replace(/XY/g, to) for a two-symbol pattern.
ReplacePair(s, x, y, to) ==
  LET n == Len(s)
      m == [i \in 1..n |-> IF i < n /\ s[i] = x /\ s[i + 1] = y THEN 2 ELSE 0]
  IN Subst(s, m, [i \in 1..n |-> to])

(***************************************************************************)
(* build-feed.mjs, HELPERS.                                                *)
(***************************************************************************)
\* unwrapCdata: /^\s*<!\[CDATA\[([\s\S]*?)\]\]>\s*$/i, on the inner text of a
\* field.  The wrapper is the field's form; the lazy group runs to the last
\* "]]>", the one before the end, so the group is the whole wrapped text.
unwrapCdata(f) == f.text

\* .replace(/<a\b[^>]*>(.*?)<\/a>/gis, "$1")
UnwrapAnchors(s) ==
  LET n == Len(s)
      e(i) == StartTagEnd(s, i, {"a"})
      c(i) == IF e(i) = 0 THEN 0 ELSE FirstEndTag(s, e(i) + 1, "/a")
      m == [i \in 1..n |-> IF c(i) # 0 THEN c(i) + 3 - i ELSE 0]
      r == [i \in 1..n |-> Slice(s, e(i) + 1, c(i) - 1)]
  IN Subst(s, m, r)

\* <br\s*\/?> at i: its length, or 0.
BrLen(s, i) ==
  IF i + 1 <= Len(s) /\ s[i] = "<" /\ s[i + 1] = "br"
  THEN LET b == BlankRunEnd(s, i + 2)
           sl == IF b + 1 <= Len(s) /\ s[b + 1] = "/" THEN b + 1 ELSE b
       IN IF sl + 1 <= Len(s) /\ s[sl + 1] = ">" THEN sl + 2 - i ELSE 0
  ELSE 0

\* <[^>]+> at i: its length, or 0.
AnyTagLen(s, i) ==
  IF i + 1 <= Len(s) /\ s[i] = "<" /\ s[i + 1] # ">" /\ FirstIn(s, i + 2, {">"}) # 0
  THEN FirstIn(s, i + 2, {">"}) + 1 - i ELSE 0

StripTags(s) ==
  LET n == Len(s)
  IN Subst(s, [i \in 1..n |-> AnyTagLen(s, i)], [i \in 1..n |-> <<>>])

stripAllTagsPreservingBreaks(html) ==
  LET n == Len(html)
      br == Subst(html, [i \in 1..n |-> BrLen(html, i)], [i \in 1..n |-> <<"\n">>])
      n2 == Len(br)
      par == Subst(br, [i \in 1..n2 |-> IF EndTagAt(br, i, "/p") THEN 3 ELSE 0],
                   [i \in 1..n2 |-> <<"\n", "\n">>])
      n3 == Len(par)
      hd == Subst(par,
                  [i \in 1..n3 |->
                     IF \E h \in HeadingEnds : EndTagAt(par, i, h) THEN 3 ELSE 0],
                  [i \in 1..n3 |-> <<"\n", "\n">>])
  IN StripTags(hd)

decodeEntities(s) ==
  ReplacePair(
    ReplacePair(
      ReplacePair(
        ReplacePair(
          ReplacePair(
            ReplacePair(s, "&", "nbsp;", <<" ">>),
            "&", "amp;", <<"&">>),
          "&", "quot;", <<"dquote">>),
        "&", "#39;", <<"squote">>),
      "&", "lt;", <<"<">>),
    "&", "gt;", <<">">>)

\* .replace(/[ \t]+\n/g, "\n")
StripLineEndBlanks(s) ==
  LET n == Len(s)
      e(i) == LET r == {j \in (i - 1)..n : \A h \in i..j : s[h] \in {" ", "\t"}}
              IN CHOOSE j \in r : \A h \in r : h <= j
      m == [i \in 1..n |->
              IF e(i) >= i /\ e(i) < n /\ s[e(i) + 1] = "\n" THEN e(i) + 2 - i ELSE 0]
  IN Subst(s, m, [i \in 1..n |-> <<"\n">>])

\* .replace(/\n{3,}/g, "\n\n")
CollapseNewlines(s) ==
  LET n == Len(s)
      e(i) == LET r == {j \in (i - 1)..n : \A h \in i..j : s[h] = "\n"}
              IN CHOOSE j \in r : \A h \in r : h <= j
      m == [i \in 1..n |-> IF e(i) - i + 1 >= 3 THEN e(i) - i + 1 ELSE 0]
  IN Subst(s, m, [i \in 1..n |-> <<"\n", "\n">>])

htmlToText(html) ==
  Trim(CollapseNewlines(StripLineEndBlanks(
    decodeEntities(stripAllTagsPreservingBreaks(html)))))

\* s.replace(/\]\]>/g, "]]&gt;")
escapeCdata(s) == ReplacePair(s, "]]", ">", <<"]]", "&", "gt;">>)

\* txt.slice(0, max).replace(/\s+\S*$/, "") + "..." when txt is longer than
\* max: the cut text loses its last run of blanks and what follows it.
Truncate(txt, max) ==
  IF Len(txt) > max
  THEN LET cut == SubSeq(txt, 1, max)
           starts == {i \in 1..max :
                        cut[i] \in Blank /\ (i = 1 \/ cut[i - 1] \notin Blank)}
           last == CHOOSE i \in starts : \A j \in starts : j <= i
       IN (IF starts = {} THEN cut ELSE SubSeq(cut, 1, last - 1)) \o <<"ellipsis">>
  ELSE txt

(***************************************************************************)
(* stripJunk.  A class attribute is one symbol, "class=" and the keyword   *)
(* its value holds.                                                        *)
(***************************************************************************)
DivJunkClasses ==
  {"class=related", "class=share", "class=social", "class=subscribe",
   "class=breadcrumbs", "class=tags", "class=tag-cloud", "class=promo",
   "class=newsletter", "class=author", "class=bio", "class=widget",
   "class=sidebar", "class=footer", "class=cta", "class=read-more"}
SectionJunkClasses ==
  {"class=related", "class=share", "class=social", "class=subscribe",
   "class=tags", "class=newsletter", "class=sources", "class=references"}
UlJunkClasses ==
  {"class=related", "class=share", "class=social", "class=tags",
   "class=sources", "class=references"}

\* .replace(/<(names)[\s\S]*?<\/\1>/gi, "")
RemoveBlocks(s, names) ==
  LET n == Len(s)
      c(i) == IF i + 1 <= n /\ s[i] = "<" /\ s[i + 1] \in names
              THEN FirstEndTag(s, i + 2, EndTag[s[i + 1]]) ELSE 0
      m == [i \in 1..n |-> IF c(i) # 0 THEN c(i) + 3 - i ELSE 0]
  IN Subst(s, m, [i \in 1..n |-> <<>>])

\* .replace(/<name[^>]*>[\s\S]*?<\/name>/gi, "") when classes is {}, and
\* .replace(/<name[^>]+class=(["']).*?\b(keywords)\b.*?\1[^>]*>[\s\S]*?<\/name>/gi, "")
\* when it is the set of class attributes that hold a keyword.
RemoveTaggedBlocks(s, name, classes) ==
  LET n == Len(s)
      e(i) == StartTagEnd(s, i, {name})
      ok(i) == e(i) # 0 /\ (classes = {} \/ \E k \in (i + 2)..(e(i) - 1) : s[k] \in classes)
      c(i) == IF ok(i) THEN FirstEndTag(s, e(i) + 1, EndTag[name]) ELSE 0
      m == [i \in 1..n |-> IF c(i) # 0 THEN c(i) + 3 - i ELSE 0]
  IN Subst(s, m, [i \in 1..n |-> <<>>])

\* .replace(/<a\b[^>]*>\s*(<img[\s\S]*?>)\s*<\/a>/gi, "$1")
UnwrapImageAnchors(s) ==
  LET n == Len(s)
      e(i) == StartTagEnd(s, i, {"a"})
      img(i) == BlankRunEnd(s, e(i) + 1) + 1
      isImg(i) == e(i) # 0 /\ img(i) + 1 <= n /\ s[img(i)] = "<" /\ s[img(i) + 1] = "img"
      ends(i) == {q \in (img(i) + 2)..n :
                    s[q] = ">" /\ EndTagAt(s, BlankRunEnd(s, q + 1) + 1, "/a")}
      q(i) == CHOOSE j \in ends(i) : \A h \in ends(i) : j <= h
      m == [i \in 1..n |->
              IF isImg(i) /\ ends(i) # {} THEN BlankRunEnd(s, q(i) + 1) + 4 - i ELSE 0]
      r == [i \in 1..n |-> Slice(s, img(i), q(i))]
  IN Subst(s, m, r)

\* .replace(/<sup[^>]*>\s*\[?\d+\]?\s*<\/sup>/gi, "")
RemoveFootnoteMarks(s) ==
  LET n == Len(s)
      e(i) == StartTagEnd(s, i, {"sup"})
      a(i) == BlankRunEnd(s, e(i) + 1) + 1
      b(i) == IF a(i) <= n /\ s[a(i)] = "[" THEN a(i) + 1 ELSE a(i)
      d(i) == LET r == {j \in (b(i) - 1)..n : \A h \in b(i)..j : s[h] = "digit"}
              IN CHOOSE j \in r : \A h \in r : h <= j
      g(i) == IF d(i) + 1 <= n /\ s[d(i) + 1] = "]" THEN d(i) + 1 ELSE d(i)
      c(i) == BlankRunEnd(s, g(i) + 1) + 1
      m == [i \in 1..n |->
              IF e(i) # 0 /\ d(i) >= b(i) /\ EndTagAt(s, c(i), "/sup")
              THEN c(i) + 3 - i ELSE 0]
  IN Subst(s, m, [i \in 1..n |-> <<>>])

stripJunk(html) ==
  RemoveFootnoteMarks(
    UnwrapImageAnchors(
      RemoveTaggedBlocks(
        RemoveTaggedBlocks(
          RemoveTaggedBlocks(
            RemoveBlocks(
              RemoveBlocks(
                RemoveTaggedBlocks(
                  RemoveBlocks(html, {"nav", "footer", "aside"}),
                  "header", {}),
                {"script"}),
              {"style"}),
            "div", DivJunkClasses),
          "section", SectionJunkClasses),
        "ul", UlJunkClasses)))

(***************************************************************************)
(* URLs.  A URL is a sequence of symbols: a scheme ("http://", "mailto:"), *)
(* a host, path segments, an extension (".png"), then "?" and parameters   *)
(* separated by "&", then "#" and a fragment.  The empty sequence stands   *)
(* for null and for the empty string, which the source tests alike.        *)
(***************************************************************************)
Null == <<>>

DEFAULT_THUMB_URL == <<"https://", "i.ibb.co", "/V0FWL4m9/CTV-Logo", ".png">>

HttpSchemes == {"http://", "HTTP://"}
HttpsSchemes == {"https://", "HTTPS://"}
RejectedSchemes == {"data:", "mailto:", "tel:", "javascript:", "JAVASCRIPT:"}
Hosts == {"host", "HOST", "i.ibb.co", "site.com", "example.com", "ctv-clearlink.github.io"}
\* ALLOWED_IMG_EXT = /\.(png|jpe?g|webp|gif)(\?|#|$)/i
ImageExtensions == {".png", ".PNG", ".jpg", ".jpeg", ".webp", ".gif"}
UtmParams ==
  {"utm_source=x", "utm_medium=x", "utm_campaign=x", "utm_term=x", "utm_content=x"}

LowerHost(h) == IF h = "HOST" THEN "host" ELSE h

\* ALLOWED_IMG_EXT.test(s)
AllowedImgExt(s) ==
  \E i \in 1..Len(s) :
    s[i] \in ImageExtensions /\ (i = Len(s) \/ s[i + 1] \in {"?", "#"})

\* new URL(s) succeeds: an http(s) scheme followed by a host.
ParsesAsUrl(s) ==
  Len(s) >= 2 /\ s[1] \in HttpSchemes \cup HttpsSchemes /\ s[2] \in Hosts

\* new URL(s).toString(): scheme and host in lower case, "/" for an empty
\* path.
UrlToString(s) ==
  LET scheme == IF s[1] \in HttpSchemes THEN "http://" ELSE "https://"
      tail == SubSeq(s, 3, Len(s))
      path == IF tail = <<>> \/ tail[1] \in {"?", "#"} THEN <<"/">> \o tail ELSE tail
  IN <<scheme, LowerHost(s[2])>> \o path

\* encodeURI(s) on a text without white space: the "%" of a "%20" is
\* written "%25".
encodeURI(s) == [i \in 1..Len(s) |-> IF s[i] = "%20" THEN "%2520" ELSE s[i]]

\* sanitizeUrl without the upgrade of the scheme.
sanitizeUrlNoUpgrade(u) ==
  IF u = Null \/ Trim(u) = <<>> THEN Null
  ELSE IF Trim(u)[1] \notin HttpSchemes \cup HttpsSchemes THEN Null
  ELSE [i \in 1..Len(Trim(u)) |-> IF Trim(u)[i] \in Blank THEN "%20" ELSE Trim(u)[i]]


sanitizeUrl(u) ==
  LET t == Trim(u)
      s == [i \in 1..Len(t) |-> IF t[i] \in Blank THEN "%20" ELSE t[i]]
      up == [i \in 1..Len(s) |-> IF i = 1 /\ s[1] \in HttpSchemes THEN "https://" ELSE s[i]]
  IN IF u = Null THEN Null
     ELSE IF s = <<>> \/ s[1] \in RejectedSchemes THEN Null
     ELSE IF s[1] \notin HttpSchemes \cup HttpsSchemes THEN Null
     ELSE IF ParsesAsUrl(up) THEN UrlToString(up)
     ELSE encodeURI(up)

\* u.split("?")[0]
BeforeQuery(u) ==
  LET q == FirstIn(u, 1, {"?"})
  IN IF q = 0 THEN u ELSE SubSeq(u, 1, q - 1)

\* The tuples new URL(u).searchParams parses from the query of u, in order:
\* the query is split at every "&", so the "amp;" of an "&amp;" written in
\* the element's text becomes the start of the next name.
SplitAtAmp(q) ==
  LET n == Len(q)
      f[i \in 1..(n + 1)] ==
        IF i > n THEN <<<<>>>>
        ELSE IF q[i] = "&" THEN <<<<>>>> \o f[i + 1]
        ELSE <<<<q[i]>> \o f[i + 1][1]>> \o Slice(f[i + 1], 2, Len(f[i + 1]))
  IN SelectSeq(f[1], LAMBDA t : t # <<>>)

QueryParams(u) ==
  LET q == FirstIn(u, 1, {"?"})
      h == FirstIn(u, 1, {"#"})
      last == IF h = 0 THEN Len(u) ELSE h - 1
  IN IF q = 0 \/ (h # 0 /\ h < q) THEN <<>>
     ELSE SplitAtAmp(Slice(u, q + 1, last))

\* The application/x-www-form-urlencoded serialization of one symbol of a
\* tuple: ";" is percent-encoded, an encoded blank becomes "+", a name
\* without "=" gets one.
SerializeSymbol(x) ==
  CASE x = "amp;" -> "amp%3B"
    [] x = "q=a%20b" -> "q=a+b"
    [] x = "flag" -> "flag="
    [] OTHER -> x

\* stripUtm without the deletion of the tracking parameters.
stripUtmKeepAll(u) ==
  IF ~ParsesAsUrl(u) THEN u ELSE UrlToString(u)

\* url.searchParams.delete(p) for the five names: a tuple goes when its name
\* is one of them, and the query becomes the serialization of the rest.
stripUtm(u) ==
  IF ~ParsesAsUrl(u) THEN u
  ELSE LET n == UrlToString(u)
           q == FirstIn(n, 1, {"?"})
           h == FirstIn(n, 1, {"#"})
           frag == IF h = 0 THEN <<>> ELSE SubSeq(n, h, Len(n))
           base == IF q # 0 /\ (h = 0 \/ q < h) THEN SubSeq(n, 1, q - 1)
                   ELSE IF h # 0 THEN SubSeq(n, 1, h - 1) ELSE n
           kept == SelectSeq(QueryParams(n), LAMBDA t : t[1] \notin UtmParams)
           ser == [i \in 1..Len(kept) |->
                     [j \in 1..Len(kept[i]) |-> SerializeSymbol(kept[i][j])]]
           query == IF kept = <<>> THEN <<>> ELSE <<"?">> \o Join(ser, <<"&">>)
       IN base \o query \o frag

(***************************************************************************)
(* Article pages.  A page is what the regular expressions of the source    *)
(* read from it: og the content of its og:image meta tag, author the       *)
(* content of its meta name="author" tag (Null when the tag is absent or   *)
(* written so that the expression misses it), ld its JSON-LD blocks.  A    *)
(* JSON value is [t, s, k, v]: t its type, s the text of a string, k the   *)
(* keys of an object, v the values of an object or the elements of an      *)
(* array.                                                                  *)
(***************************************************************************)
JStr(str) == [t |-> "str", s |-> str, k |-> <<>>, v |-> <<>>]
JObj(keys, vals) == [t |-> "obj", s |-> <<>>, k |-> keys, v |-> vals]
JArr(els) == [t |-> "arr", s |-> <<>>, k |-> <<>>, v |-> els]
JNull == [t |-> "null", s |-> <<>>, k |-> <<>>, v |-> <<>>]

\* obj[key], JNull when the object has no such key.
JGet(obj, key) ==
  LET hits == {i \in 1..Len(obj.k) : obj.k[i] = key}
  IN IF obj.t # "obj" \/ hits = {} THEN JNull
     ELSE obj.v[CHOOSE i \in hits : \A j \in hits : j <= i]

\* A value the source's `if (x)` takes.
Truthy(j) == j.t \in {"obj", "arr"} \/ (j.t = "str" /\ j.s # <<>>)

\* The text a value gives when it is returned as the name.
AsName(j) == IF j.t = "str" THEN j.s ELSE <<"[object Object]">>

FirstNonNull(seq) ==
  LET hits == {i \in 1..Len(seq) : seq[i] # Null}
  IN IF hits = {} THEN Null ELSE seq[CHOOSE i \in hits : \A j \in hits : i <= j]

ArticleTypes == {<<"Article">>, <<"NewsArticle">>, <<"BlogPosting Article">>}

RECURSIVE findAuthorName(_)
findAuthorName(obj) ==
  IF obj.t \notin {"obj", "arr"} THEN Null
  ELSE
    LET elems == FirstNonNull([i \in 1..Len(obj.v) |-> findAuthorName(obj.v[i])])
        a == JGet(obj, "author")
        named(e) == Truthy(e) /\ (Truthy(JGet(e, "name")) \/ e.t = "str")
        nameOf(e) == IF Truthy(JGet(e, "name")) THEN AsName(JGet(e, "name")) ELSE AsName(e)
        direct ==
          IF ~Truthy(a) THEN Null
          ELSE IF a.t = "str" THEN a.s
          ELSE IF a.t = "arr"
            THEN FirstNonNull([i \in 1..Len(a.v) |->
                                 IF named(a.v[i]) THEN nameOf(a.v[i]) ELSE Null])
          ELSE IF Truthy(JGet(a, "name")) THEN AsName(JGet(a, "name"))
          ELSE Null
        type == JGet(obj, "@type")
        article ==
          IF ~(type.t = "str" /\ type.s \in ArticleTypes /\ Truthy(a)) THEN Null
          ELSE IF a.t = "str" THEN a.s
          ELSE IF a.t = "arr" /\
                  FirstNonNull([i \in 1..Len(a.v) |->
                                  IF Truthy(a.v[i]) /\ Truthy(JGet(a.v[i], "name"))
                                  THEN AsName(JGet(a.v[i], "name")) ELSE Null]) # Null
            THEN FirstNonNull([i \in 1..Len(a.v) |->
                                 IF Truthy(a.v[i]) /\ Truthy(JGet(a.v[i], "name"))
                                 THEN AsName(JGet(a.v[i], "name")) ELSE Null])
          ELSE IF Truthy(JGet(a, "name")) THEN AsName(JGet(a, "name"))
          ELSE Null
    IN IF obj.t = "arr" THEN elems
       ELSE IF direct # Null THEN direct
       ELSE IF article # Null THEN article
       ELSE elems

Page(og, author, ld) == [og |-> og, author |-> author, ld |-> ld]
LdBlock(parses, json) == [parses |-> parses, json |-> json]

\* A response of fetch(link): it throws, or it has a status and a body.
Response(thrown, ok, html) == [thrown |-> thrown, ok |-> ok, html |-> html]
NoPage == Page(Null, Null, <<>>)

(***************************************************************************)
(* rewriteItems: the rewrite of one item, out, a sequence of tokens from   *)
(* <item> to </item>.                                                      *)
(***************************************************************************)
IsElem(t, pfx, name) == toLowerCase(t.pfx) = pfx /\ toLowerCase(t.name) = name

\* The first position of out that satisfies ok, or 0.
FirstTok(out, ok) ==
  LET hits == {i \in 1..Len(out) : ok[i]}
  IN IF hits = {} THEN 0 ELSE CHOOSE i \in hits : \A j \in hits : i <= j

WordSymbols == {"t", "in", "IN", "year", "digit"}

\* .replace(/\[[^\]]+\]/g, "")
RemoveShortcodes(s) ==
  LET n == Len(s)
      m == [i \in 1..n |->
              IF i + 1 <= n /\ s[i] = "[" /\ s[i + 1] # "]" /\ FirstIn(s, i + 2, {"]"}) # 0
              THEN FirstIn(s, i + 2, {"]"}) + 1 - i ELSE 0]
  IN Subst(s, m, [i \in 1..n |-> <<>>])

\* .replace(/\s{2,}/g, " ")
CollapseBlanks(s) ==
  LET n == Len(s)
      m == [i \in 1..n |->
              IF BlankRunEnd(s, i) - i + 1 >= 2 THEN BlankRunEnd(s, i) - i + 1 ELSE 0]
  IN Subst(s, m, [i \in 1..n |-> <<" ">>])

\* The test without the word boundary: /in\s*$/i.
EndsWithInAnywhere(s) ==
  LET e == {i \in 1..Len(s) : \A j \in (i + 1)..Len(s) : s[j] \in Blank}
      last == CHOOSE i \in e : \A j \in e : i <= j
  IN e # {} /\ s[last] \in {"in", "IN"}

\* /\bin\s*$/i.test(t)
EndsWithIn(s) ==
  LET e == {i \in 1..Len(s) : \A j \in (i + 1)..Len(s) : s[j] \in Blank}
      last == CHOOSE i \in e : \A j \in e : i <= j
  IN /\ e # {}
     /\ s[last] \in {"in", "IN"}
     /\ (last = 1 \/ s[last - 1] \notin WordSymbols)

\* The callback of the title replace.
CleanTitle(raw) ==
  LET t == Trim(CollapseBlanks(
             ReplacePair(RemoveShortcodes(Trim(raw)), "&", "#124;", <<"|">>)))
  IN IF EndsWithIn(t) THEN t \o <<"year">> ELSE t

\* out.replace(/<title>\s*(?:<!\[CDATA\[([\s\S]*?)\]\]>|([^<]*))\s*<\/title>/i, ...)
RewriteTitle(out) ==
  LET n == Len(out)
      ok == [i \in 1..n |->
               /\ out[i].k = "field" /\ IsElem(out[i], "", "title") /\ out[i].attrs = <<>>
               /\ (out[i].form # "raw" \/ \A j \in 1..Len(out[i].text) : out[i].text[j] # "<")]
      i == FirstTok(out, ok)
  IN IF i = 0 THEN out
     ELSE [out EXCEPT ![i] = Field("", "title", "cdata", CleanTitle(out[i].text))]

\* replaceBlock(xml, tagName, fn): the first <tagName ...>inner</tagName>,
\* in any letter case, becomes <tagName>fn(inner)</tagName>.
BlockIdx(out, pfx, name) ==
  FirstTok(out, [i \in 1..Len(out) |-> out[i].k = "field" /\ IsElem(out[i], pfx, name)])

\* The per-item text cap, 8000 in the source, scaled to the texts of the model.
CONTENT_MAX_CHARS == 8

\* The callback of replaceBlock(out, "description", ...), before it wraps
\* the text in <![CDATA[ ]]>.
DescriptionText(f) ==
  Truncate(Trim(decodeEntities(stripAllTagsPreservingBreaks(unwrapCdata(f)))),
           CONTENT_MAX_CHARS)

RewriteDescription(out) ==
  LET i == BlockIdx(out, "", "description")
  IN IF i = 0 THEN out
     ELSE [out EXCEPT ![i] = Field("", "description", "cdata", DescriptionText(out[i]))]

FORCE_NO_LINKS == TRUE

\* The callback of replaceBlock(out, "content:encoded", ...): the text
\* before escapeCdata and the <p> wrapper.
ContentText(f) ==
  LET body == stripJunk(unwrapCdata(f))
      flat == htmlToText(IF FORCE_NO_LINKS THEN UnwrapAnchors(body) ELSE body)
  IN Truncate(flat, CONTENT_MAX_CHARS)

RewriteContent(out) ==
  LET i == BlockIdx(out, "content", "encoded")
  IN IF i = 0 THEN out
     ELSE [out EXCEPT ![i] =
             Field("content", "encoded", "cdata",
                   <<"<", "p", ">">> \o escapeCdata(ContentText(out[i])) \o <<"<", "/p", ">">>)]

\* ensureAuthor(itemXml, articleHtml)
HasSimple(out, pfx, name) ==
  \E i \in 1..Len(out) :
    out[i].k = "field" /\ IsElem(out[i], pfx, name) /\ out[i].attrs = <<>>

\* The name ensureAuthor reads from the page: the meta tag, else the first
\* JSON-LD block that parses and holds an author.
PageAuthor(html) ==
  IF html.author # Null THEN html.author
  ELSE FirstNonNull([i \in 1..Len(html.ld) |->
                       IF html.ld[i].parses THEN findAuthorName(html.ld[i].json)
                       ELSE Null])

\* out.replace(/<\/item>/i, ins + "</item>") when anyCase, and
\* out.replace("</item>", ins + "</item>") otherwise.
InsertBeforeItemEnd(out, ins, anyCase) ==
  LET n == Len(out)
      m == [i \in 1..n |->
              IF out[i].k = "close" /\ out[i].pfx = "" /\
                 (IF anyCase THEN toLowerCase(out[i].name) ELSE out[i].name) = "item"
              THEN 1 ELSE 0]
  IN SubstFirst(out, m, [i \in 1..n |-> GetSubstitution(ins) \o <<out[i]>>])

\* ensureAuthor without its test of hasDc and hasAuthor.
ensureAuthorAlways(itemXml, articleHtml) ==
  IF PageAuthor(articleHtml) # Null
  THEN InsertBeforeItemEnd(itemXml,
         <<Text("\n"), Field("dc", "creator", "cdata", PageAuthor(articleHtml)),
           Text("\n"), Field("", "author", "cdata", PageAuthor(articleHtml)),
           Text("\n")>>, TRUE)
  ELSE itemXml

ensureAuthor(itemXml, articleHtml) ==
  LET name == PageAuthor(articleHtml)
      inject == <<Text("\n"), Field("dc", "creator", "cdata", name),
                  Text("\n"), Field("", "author", "cdata", name), Text("\n")>>
  IN IF HasSimple(itemXml, "dc", "creator") \/ HasSimple(itemXml, "", "author")
     THEN itemXml
     ELSE IF name # Null THEN InsertBeforeItemEnd(itemXml, inject, TRUE)
     ELSE itemXml

\* out.match(/<pfx:name[^>]+url=["']([^"']+)["']/i)?.[1] || null
UrlAttrOf(out, pfx, name) ==
  LET ok == [i \in 1..Len(out) |->
               IsTag(out[i]) /\ IsElem(out[i], pfx, name) /\ HasAttr(out[i], "url")
               /\ AttrVal(out[i], "url") # <<>>]
      i == FirstTok(out, ok)
  IN IF i = 0 THEN Null ELSE AttrVal(out[i], "url")

\* (out.match(/<link>([^<]+)<\/link>/)?.[1] || "").split("?")[0]
LinkIdx(out, anyCase) ==
  FirstTok(out,
    [i \in 1..Len(out) |->
       /\ out[i].k = "field" /\ out[i].pfx = "" /\ out[i].attrs = <<>>
       /\ (IF anyCase THEN toLowerCase(out[i].name) ELSE out[i].name) = "link"
       /\ out[i].form = "raw" /\ out[i].text # <<>>
       /\ \A j \in 1..Len(out[i].text) : out[i].text[j] # "<"])

LinkOf(out) ==
  IF LinkIdx(out, FALSE) = 0 THEN Null ELSE BeforeQuery(out[LinkIdx(out, FALSE)].text)

\* await fetch(link, ...) against the pages of this run.
FetchPage(w, link) ==
  IF link \in DOMAIN w THEN w[link] ELSE Response(TRUE, FALSE, NoPage)

ThumbTag(u) == SelfC("media", "thumbnail", <<Attr("url", u)>>, TRUE)

\* /<media:thumbnail\b/i.test(out)
HasThumbnail(out) ==
  \E i \in 1..Len(out) : IsTag(out[i]) /\ IsElem(out[i], "media", "thumbnail")

\* The branch taken when the item has no media:thumbnail.
AddThumbnail(out, w) ==
  LET first == IF UrlAttrOf(out, "media", "content") # Null
               THEN UrlAttrOf(out, "media", "content")
               ELSE UrlAttrOf(out, "", "enclosure")
      link == LinkOf(out)
      res == FetchPage(w, link)
      fetched == first = Null /\ link # Null /\ ~res.thrown /\ res.ok
      og == IF fetched THEN res.html.og ELSE Null
      out1 == IF fetched THEN ensureAuthor(out, res.html) ELSE out
      thumb == IF first # Null THEN first
               ELSE IF og # Null THEN og
               ELSE DEFAULT_THUMB_URL
      u == sanitizeUrl(thumb)
  IN IF u # Null /\ AllowedImgExt(u)
     THEN InsertBeforeItemEnd(out1, <<ThumbTag(u)>>, FALSE)
     ELSE out1

\* The branch taken when the item has one:
\* out.replace(/<media:thumbnail[^>]+url=["']([^"']+)["'][^>]*\/>/i, ...)
\* and then the author.
SanitizeThumbnail(out, w) ==
  LET n == Len(out)
      m == [i \in 1..n |->
              IF out[i].k = "self" /\ IsElem(out[i], "media", "thumbnail")
                 /\ HasAttr(out[i], "url") /\ AttrVal(out[i], "url") # <<>>
              THEN 1 ELSE 0]
      r == [i \in 1..n |->
              LET u == sanitizeUrl(AttrVal(out[i], "url"))
              IN IF u # Null /\ AllowedImgExt(u) THEN <<ThumbTag(u)>> ELSE <<>>]
      out1 == SubstFirst(out, m, r)
      link == LinkOf(out1)
      res == FetchPage(w, link)
  IN IF link # Null /\ ~res.thrown /\ res.ok THEN ensureAuthor(out1, res.html) ELSE out1

RewriteThumbnail(out, w) ==
  IF ~HasThumbnail(out) THEN AddThumbnail(out, w) ELSE SanitizeThumbnail(out, w)

\* out.replace(/<link>([^<]+)<\/link>/i, (_, u) => `<link>${stripUtm(u)}</link>`)
RewriteLink(out) ==
  LET i == LinkIdx(out, TRUE)
  IN IF i = 0 THEN out ELSE [out EXCEPT ![i] = Field("", "link", "raw", stripUtm(out[i].text))]

\* The article pages the thumbnail step asks for with fetch(link, ...): the
\* item's link, unless the item has no thumbnail but a media:content or an
\* enclosure with a url.
RequestedBy(out) ==
  IF LinkOf(out) = Null
     \/ (~HasThumbnail(out) /\ UrlAttrOf(out, "media", "content") # Null)
     \/ (~HasThumbnail(out) /\ UrlAttrOf(out, "", "enclosure") # Null)
  THEN {}
  ELSE {LinkOf(out)}

\* The article pages the rewrite of one item asks for.  The title,
\* description and content rewrites before the thumbnail step change the
\* text of those three elements only, so the step reads the link and the
\* media tags of the item as they came.
Requested(item) == RequestedBy(item)

\* The body of the loop of rewriteItems: item to out.
rewriteItem(item, w) ==
  RewriteLink(RewriteThumbnail(RewriteContent(RewriteDescription(RewriteTitle(item))), w))

\* xmlStr.replace(item, out): the first occurrence of item becomes out, read
\* as a replacement text.
ReplaceFirst(x, pat, rep) ==
  LET n == Len(x)
      k == Len(pat)
      m == [i \in 1..n |-> IF i + k - 1 <= n /\ SubSeq(x, i, i + k - 1) = pat THEN k ELSE 0]
  IN SubstFirst(x, m, [i \in 1..n |-> GetSubstitution(rep)])

(***************************************************************************)
(* build-news.mjs: the link-retaining rewrite of content:encoded.          *)
(***************************************************************************)
MAX_LINKS == 2

\* html.replace(/<(names)[^>]*>[\s\S]*?<\/\1>/gi,
\*              m => m.replace(/<a\b[^>]*>(.*?)<\/a>/gis, "$1"))
UnwrapAnchorsIn(s, names) ==
  LET n == Len(s)
      e(i) == StartTagEnd(s, i, names)
      c(i) == IF e(i) = 0 THEN 0 ELSE FirstEndTag(s, e(i) + 1, EndTag[s[i + 1]])
      m == [i \in 1..n |-> IF c(i) # 0 THEN c(i) + 3 - i ELSE 0]
      r == [i \in 1..n |-> UnwrapAnchors(Slice(s, i, c(i) + 2))]
  IN Subst(s, m, r)

\* /^(mailto:|tel:|javascript:|#)/i.test(href), on the symbol of an href
\* attribute.
UnsafeHrefSymbols == {"href=mailto:", "href=tel:", "href=javascript:", "href=#"}
HrefSymbols == UnsafeHrefSymbols \cup {"href=https:"}

\* html.replace(/<a\b[^>]*href=["']([^"']*)["'][^>]*>(.*?)<\/a>/gis,
\*              (m, href, inner) => unsafe(href) ? inner : m)
\* The greedy [^>]* makes href the last href attribute of the tag.
removeUnsafeAnchors(html) ==
  LET n == Len(html)
      e(i) == StartTagEnd(html, i, {"a"})
      hrefs(i) == {k \in (i + 2)..(e(i) - 1) : html[k] \in HrefSymbols}
      href(i) == IF hrefs(i) = {} THEN ""
                 ELSE html[CHOOSE k \in hrefs(i) : \A h \in hrefs(i) : h <= k]
      c(i) == IF e(i) = 0 \/ hrefs(i) = {} THEN 0 ELSE FirstEndTag(html, e(i) + 1, "/a")
      m == [i \in 1..n |-> IF c(i) # 0 THEN c(i) + 3 - i ELSE 0]
      r == [i \in 1..n |->
              IF href(i) \in UnsafeHrefSymbols THEN Slice(html, e(i) + 1, c(i) - 1)
              ELSE Slice(html, i, c(i) + 2)]
  IN Subst(html, m, r)

\* read\s*more|continue|back\s*to\s*top|view\s*sources?|sources?|references?
Boilerplate == {"read more", "continue", "back to top", "view sources", "sources", "references"}

\* html.replace(/<a\b[^>]*>(\s*(boilerplate)\s*)<\/a>/gi, (m, inner) => inner)
UnwrapBoilerplateAnchors(s) ==
  LET n == Len(s)
      e(i) == StartTagEnd(s, i, {"a"})
      a(i) == BlankRunEnd(s, e(i) + 1) + 1
      b(i) == BlankRunEnd(s, a(i) + 1) + 1
      ok(i) == e(i) # 0 /\ a(i) <= n /\ s[a(i)] \in Boilerplate /\ EndTagAt(s, b(i), "/a")
      m == [i \in 1..n |-> IF ok(i) THEN b(i) + 3 - i ELSE 0]
      r == [i \in 1..n |-> Slice(s, e(i) + 1, b(i) - 1)]
  IN Subst(s, m, r)

unwrapLowValueAnchors(html) ==
  UnwrapBoilerplateAnchors(
    UnwrapAnchorsIn(
      UnwrapAnchorsIn(html, {"figcaption", "caption", "small"}),
      {"ul", "ol", "table"}))

\* anchorCount and capAnchors are called by the rewrite but their bodies are
\* not part of the listing of build-news.mjs; both follow the link-capping
\* rule of the specification.  The number of hyperlink elements of html: its
\* <a ...> start tags.
anchorCount(html) ==
  Cardinality({i \in 1..Len(html) : StartTagEnd(html, i, {"a"}) # 0})

\* body.slice(0, cut) + body.slice(cut).replace(/<a\b[^>]*>(.*?)<\/a>/gis, "$1")
\* with cut = Math.floor(body.length * 0.75)
UnwrapFinalQuarter(body) ==
  LET cut == (Len(body) * 3) \div 4
  IN Slice(body, 1, cut) \o UnwrapAnchors(Slice(body, cut + 1, Len(body)))

\* The soft cap: above max, the hyperlinks of the final quarter of the body
\* are unwrapped first.
capAnchors(body, max) ==
  IF anchorCount(body) > max THEN UnwrapFinalQuarter(body) ELSE body

\* The callback of the content:encoded replace: body to body.
NewsBody(body) ==
  LET clean == unwrapLowValueAnchors(removeUnsafeAnchors(stripJunk(body)))
      heads == UnwrapAnchorsIn(clean, Headings)
      soft == capAnchors(heads, MAX_LINKS)
      hard == IF anchorCount(soft) > MAX_LINKS THEN UnwrapAnchors(soft) ELSE soft
  IN UnwrapFinalQuarter(hard)

\* out.replace(/(<content:encoded><!\[CDATA\[)([\s\S]*?)(\]\]><\/content:encoded>)/, ...)
\* The expression takes the element as written here only: this letter case,
\* no attribute, the CDATA section next to the tags.
NewsContentIdx(out) ==
  FirstTok(out, [i \in 1..Len(out) |->
                   /\ out[i].k = "field" /\ out[i].pfx = "content" /\ out[i].name = "encoded"
                   /\ out[i].attrs = <<>> /\ out[i].form = "cdata"])

NewsRewriteContent(out) ==
  LET i == NewsContentIdx(out)
  IN IF i = 0 THEN out
     ELSE [out EXCEPT ![i] = Field("content", "encoded", "cdata", NewsBody(out[i].text))]

\* out.replace(/<snf:analytics>[\s\S]*?<\/snf:analytics>/gi, "")
RemoveAnalytics(out) ==
  LET n == Len(out)
      isA(t) == IsElem(t, "snf", "analytics") /\ t.attrs = <<>>
      c(i) == LET cl == {j \in (i + 1)..n : out[j].k \in {"close", "field"} /\ isA(out[j])}
              IN IF cl = {} THEN 0 ELSE CHOOSE j \in cl : \A h \in cl : j <= h
      m == [i \in 1..n |->
              IF out[i].k = "field" /\ isA(out[i]) THEN 1
              ELSE IF out[i].k = "open" /\ isA(out[i]) /\ c(i) # 0 THEN c(i) - i + 1
              ELSE 0]
  IN Subst(out, m, [i \in 1..n |-> <<>>])

\* The body of the loop of rewriteItems of build-news.mjs for an item that
\* carries a media:thumbnail: title, analytics, content:encoded, the
\* thumbnail and the author, the link.
newsRewriteItem(item, w) ==
  RewriteLink(SanitizeThumbnail(NewsRewriteContent(RemoveAnalytics(RewriteTitle(item))), w))

(***************************************************************************)
(* main of build-feed.mjs as a state machine.  pc is the position in main: *)
(* the awaits (the fetch of the feed, the fetch of each item's page inside *)
(* rewriteItems) and the numbered steps between them.  src is the body the *)
(* origin returns, web the article pages of this run, file what has been   *)
(* written to OUTPUT, exitCode the status of the process (-1: running).    *)
(***************************************************************************)
\* The number of items kept, 30 in the source, scaled to the feeds of the model.
ITEM_LIMIT == 2

NoFile == [kind |-> "none", body |-> <<>>]

TypeOK ==
  /\ pc \in {"start", "fetched", "selflink", "limit", "rewrite", "catch", "done", "exited",
            "news", "g_start", "g_fetched", "g_guards", "g_write", "g_catch"}
  /\ file.kind \in {"none", "feed", "error"}
  /\ exitCode \in {-1, 0, 1}
  /\ idx \in 0..(Len(items) + 1)

\* The stack of the error a failure of main throws: its message and the
\* frame that threw it.
Stack(message) == <<"Error: ">> \o message \o <<"\n", "    at main">>

\* res.statusText, the reason phrase the origin sent.
StatusTexts == { <<"Not Found">>, <<"Q", "&", "A">>, <<"dquote", "gone", "dquote">> }

\* const res = await fetch(SOURCE_FEED_URL, ...); if (!res.ok) throw ...
FetchFeed ==
  /\ pc = "start"
  /\ \/ /\ pc' = "fetched"
        /\ xml' = src
        /\ err' = err
     \/ /\ pc' = "catch"
        /\ xml' = xml
        /\ \/ err' = <<"TypeError: ", "fetch failed", "\n", "    at fetch">>
           \/ \E statusText \in StatusTexts :
                err' = Stack(<<"Fetch ", "SOURCE_FEED_URL", " failed: ", "404", " ">> \o statusText)
  /\ UNCHANGED <<src, web, items, idx, requests, file, exitCode>>

\* The root test and the namespace clean-up (lines 41-75).
Normalize ==
  /\ pc = "fetched"
  /\ pc' = IF HasRssRoot(xml) THEN "selflink" ELSE "catch"
  /\ xml' = IF HasRssRoot(xml) THEN NormalizeNamespaces(xml) ELSE xml
  /\ err' = IF HasRssRoot(xml) THEN err
            ELSE Stack(<<"Origin did not return RSS/XML (no ", "<", "rss", ">", " tag)">>)
  /\ UNCHANGED <<src, web, items, idx, requests, file, exitCode>>

\* Ensure exactly one correct atom:link rel="self" (lines 77-81).
SelfLink ==
  /\ pc = "selflink"
  /\ pc' = "limit"
  /\ xml' = EnsureSelfLink(xml)
  /\ UNCHANGED <<src, web, items, idx, requests, err, file, exitCode>>

\* xml = limitItems(xml, ITEM_LIMIT), and the match that opens rewriteItems.
LimitItems ==
  /\ pc = "limit"
  /\ pc' = "rewrite"
  /\ xml' = limitItems(xml, ITEM_LIMIT)
  /\ items' = MatchItems(xml')
  /\ idx' = 1
  /\ UNCHANGED <<src, web, requests, err, file, exitCode>>

\* One turn of the loop without the try around the fetch: a fetch that
\* throws ends main.
RewriteItemThrowing ==
  /\ pc = "rewrite"
  /\ idx <= Len(items)
  /\ IF FetchPage(web, LinkOf(items[idx])).thrown
     THEN pc' = "catch" /\ xml' = xml /\ idx' = idx
     ELSE /\ pc' = pc
          /\ xml' = ReplaceFirst(xml, items[idx], rewriteItem(items[idx], web))
          /\ idx' = idx + 1
  /\ requests' = requests \cup Requested(items[idx])
  /\ UNCHANGED <<src, web, items, err, file, exitCode>>

\* One turn of the loop of rewriteItems, the page fetch included.
RewriteItem ==
  /\ pc = "rewrite"
  /\ idx <= Len(items)
  /\ xml' = ReplaceFirst(xml, items[idx], rewriteItem(items[idx], web))
  /\ idx' = idx + 1
  /\ requests' = requests \cup Requested(items[idx])
  /\ UNCHANGED <<pc, src, web, items, err, file, exitCode>>

\* writeFileSync(OUTPUT, xml, "utf8"), which throws when the file cannot be
\* written.
WriteFeed ==
  /\ pc = "rewrite"
  /\ idx > Len(items)
  /\ \E written \in BOOLEAN :
       /\ pc' = IF written THEN "done" ELSE "catch"
       /\ file' = IF written THEN [kind |-> "feed", body |-> xml] ELSE file
       /\ exitCode' = IF written THEN 0 ELSE exitCode
       /\ err' = IF written THEN err
                 ELSE Stack(<<"EACCES: permission denied, open ", "squote", "dist/feed.xml", "squote">>)
  /\ UNCHANGED <<src, web, xml, items, idx, requests>>

\* A character reference of XML, as the two symbols the texts use for it.
Entity(name) == <<"&", name>>

\* s.replace(/[<>&'"]/g, c => ({'<':'&lt;','>':'&amp;',"'":'&apos;','"':'&quot;'}[c])):
\* the table has no entry for "&", and the callback's undefined is written
\* as the text "undefined".
escapeXml(s) ==
  Join([i \in 1..Len(s) |->
          CASE s[i] = "<" -> Entity("lt;")
            [] s[i] = ">" -> Entity("amp;")
            [] s[i] = "&" -> <<"undefined">>
            [] s[i] = "squote" -> Entity("apos;")
            [] s[i] = "dquote" -> Entity("quot;")
            [] OTHER -> <<s[i]>>], <<>>)

\* The diagnostic document main().catch writes.
ErrorDocument(e) ==
  <<"<?xml version=\"1.0\" encoding=\"UTF-8\"?>", "<", "error", ">">> \o escapeXml(e) \o
  <<"<", "/error", ">">>

\* Catch with the exit status of the last write.
CatchSilently ==
  /\ pc = "catch"
  /\ pc' = "exited"
  /\ \E written \in BOOLEAN :
       /\ file' = IF written THEN [kind |-> "error", body |-> ErrorDocument(err)] ELSE file
       /\ exitCode' = IF written THEN 1 ELSE 0
  /\ UNCHANGED <<src, web, xml, items, idx, requests, err>>

\* main().catch(err => { ... writeFileSync(OUTPUT, <error>...) ... process.exit(1) })
Catch ==
  /\ pc = "catch"
  /\ pc' = "exited"
  /\ \E written \in BOOLEAN :
       file' = IF written THEN [kind |-> "error", body |-> ErrorDocument(err)] ELSE file
  /\ exitCode' = 1
  /\ UNCHANGED <<src, web, xml, items, idx, requests, err>>

Next ==
  \/ FetchFeed
  \/ Normalize
  \/ SelfLink
  \/ LimitItems
  \/ RewriteItem
  \/ WriteFeed
  \/ Catch

(***************************************************************************)
(* Source feeds.  A feed is <rss><channel> head items foot </channel>      *)
(* </rss>; the families below vary one part each.                          *)
(***************************************************************************)
MaxFragments == 2

\* Sequences of at most n elements of the set S.
SeqsUpTo(S, n) == UNION {[1..k -> S] : k \in 0..n}

\* The concatenation of a sequence of sequences.
Concat(ss) == Join(ss, <<>>)

OLD_SELF_URL == <<"http://", "example.com", "/feed">>

PlainItem(n) ==
  <<Open("", "item", <<>>),
    Field("", "title", "raw", <<"t", n>>),
    Field("", "link", "raw", <<"https://", "site.com", "/a", n>>),
    Close("", "item")>>

Feed(root, head, its, foot) ==
  <<root, Open("", "channel", <<>>)>> \o head \o Concat(its) \o foot \o
  <<Close("", "channel"), Close("", "rss")>>

SourceRoot ==
  Open("", "rss", <<Attr("version", <<"2.0">>),
                    XmlnsAttr("snf", SMARTNEWS_URI, "dq"),
                    XmlnsAttr("foo", "http://example.com/foo", "dq")>>)

\* What a channel may hold before its items.
HeadFragments ==
  { <<Field("", "title", "raw", <<"t">>)>>,
    <<Open("foo", "bar", <<>>), Text("x"), Close("foo", "bar")>>,
    <<SelfC("foo", "empty", <<>>, FALSE)>>,
    <<Open("media", "group", <<>>), Open("foo", "bar", <<>>), Text("x"),
      Close("foo", "bar"), Close("media", "group")>>,
    <<Open("snf", "logo", <<>>), Open("", "url", <<>>), Text("x"), Close("", "url"),
      Close("snf", "logo")>>,
    <<SelfC("SNF", "logo", <<>>, TRUE)>>,
    <<Open("", "image", <<XmlnsAttr("foo", "http://example.com/foo", "dq")>>),
      Close("", "image")>>,
    <<SelfC("atom", "link", <<Attr("rel", <<"self">>), Attr("href", OLD_SELF_URL)>>, TRUE),
      Text("\n")>>,
    <<SelfC("atom", "link", <<Attr("href", FEED_SELF_URL), Attr("rel", <<"self">>)>>, TRUE)>>,
    <<Open("atom", "link", <<Attr("rel", <<"self">>), Attr("href", OLD_SELF_URL)>>),
      Close("atom", "link")>>,
    <<SelfC("atom", "link", <<Attr("rel", <<"alternate">>), Attr("href", OLD_SELF_URL)>>, TRUE)>> }

\* What may follow the last item.
FootFragments ==
  { <<>>, <<Text("\n")>>, <<Open("", "image", <<>>), Text("x"), Close("", "image")>> }

ItemNames == <<"1", "2", "3", "4", "5">>

DocFeeds ==
  { Feed(SourceRoot, Concat(h), [i \in 1..n |-> PlainItem(ItemNames[i])], f) :
      h \in SeqsUpTo(HeadFragments, MaxFragments),
      n \in 0..(ITEM_LIMIT + 1),
      f \in FootFragments }
  \cup { <<XmlDecl, Text("\n")>> \o Feed(SourceRoot, <<>>, <<PlainItem("1")>>, <<>>),
         <<Open("", "html", <<>>), Text("x"), Close("", "html")>> }

NoWeb == [l \in {} |-> Response(TRUE, FALSE, NoPage)]

InitWith(feeds, webs) ==
  /\ pc = "start"
  /\ src \in feeds
  /\ web \in webs
  /\ xml = <<>>
  /\ items = <<>>
  /\ idx = 0
  /\ requests = {}
  /\ err = <<>>
  /\ file = NoFile
  /\ exitCode = -1

InitDoc == InitWith(DocFeeds, {NoWeb})

\* The normalizer over feeds that vary the channel: namespaces, self links,
\* the number of items and what follows them.
SpecDoc == InitDoc /\ [][Next]_vars

(***************************************************************************)
(* The normalizer's properties.                                            *)
(***************************************************************************)
\* The elements of x: its start tags, self-closing tags and fields.
IsElement(t) == t.k \in {"open", "self", "field"}

\* x holds an element of a prefix outside the whitelist.
HasDisallowedElement(x) ==
  \E i \in 1..Len(x) : IsElement(x[i]) /\ x[i].pfx # "" /\ ~Allowed(x[i])

\* x declares a prefix outside the whitelist.
HasDisallowedXmlns(x) ==
  \E i \in 1..Len(x) : \E a \in 1..Len(x[i].attrs) :
    x[i].attrs[a].n = "xmlns" /\ toLowerCase(x[i].attrs[a].p) \notin ALLOWED_NS_PREFIXES

\* C1: once the normalizer's namespace steps have run, the document declares
\* no prefix outside the whitelist and holds no element, container or
\* self-closing, of a prefix outside it.
C1_NamespaceInvariant ==
  pc = "selflink" => ~HasDisallowedXmlns(xml) /\ ~HasDisallowedElement(xml)

\* The self links of x: every atom:link element with rel="self".
SelfLinks(x) ==
  SelectSeq(x, LAMBDA t : IsElement(t) /\ IsAtomLink(t) /\ HasRelSelf(t))

HasChannel(x) == \E i \in 1..Len(x) : IsChannelStart(x[i], FALSE)

\* C2: for a source with an <rss> root and a <channel>, the written feed
\* holds exactly one atom:link rel="self" and its href is FEED_SELF_URL.
C2_ExactlyOneSelfLink ==
  (file.kind = "feed" /\ HasChannel(src)) =>
    /\ Len(SelfLinks(file.body)) = 1
    /\ AttrVal(SelfLinks(file.body)[1], "href") = FEED_SELF_URL

\* The tokens of x before its first item, and those after its last item,
\* white space apart.
NotWs(x) == SelectSeq(x, LAMBDA t : ~IsWs(t))

BeforeItems(x) ==
  LET sp == ItemSpans(x)
  IN NotWs(IF sp = <<>> THEN x ELSE Slice(x, 1, sp[1][1] - 1))

AfterItems(x) ==
  LET sp == ItemSpans(x)
  IN NotWs(IF sp = <<>> THEN <<>> ELSE Slice(x, sp[Len(sp)][2] + 1, Len(x)))

\* C3: limitItems leaves a document of at most ITEM_LIMIT items as it is; of
\* a longer one it keeps the first ITEM_LIMIT items in their order, with
\* what precedes the first item and what follows the last item preserved.
C3_LimitItems ==
  [][pc = "limit" =>
       IF Len(MatchItems(xml)) <= ITEM_LIMIT THEN xml' = xml
       ELSE /\ MatchItems(xml') = SubSeq(MatchItems(xml), 1, ITEM_LIMIT)
            /\ BeforeItems(xml') = BeforeItems(xml)
            /\ AfterItems(xml') = AfterItems(xml)]_vars

(***************************************************************************)
(* Items that vary the body: one item whose description and                *)
(* content:encoded hold a body made of at most MaxBodyFragments fragments. *)
(* A symbol of a text counts as one character of it.                       *)
(***************************************************************************)
MaxBodyFragments == 3

BodyFragments ==
  { <<"t">>,
    <<" ">>,
    <<"t", "t", "t", "t">>,
    <<"&", "amp;", "amp;">>,
    <<"<", "br", ">">>,
    <<"<", "p", ">", "t", "<", "/p", ">">>,
    <<"<", "a", "href=https:", ">", "t", "<", "/a", ">">>,
    <<"<", "a", "href=mailto:", ">", "t", "<", "/a", ">">>,
    <<"&", "lt;", "a", "href=mailto:", "&", "gt;", "t", "&", "lt;", "/a", "&", "gt;">>,
    <<"<", "div", "class=related", ">", "t", "<", "/div", ">">> }

Bodies == { Concat(b) : b \in SeqsUpTo(BodyFragments, MaxBodyFragments) }

BodyForms == {"cdata", "raw"}

BodyItem(fields) ==
  <<Open("", "item", <<>>), Field("", "title", "raw", <<"t">>)>> \o fields \o
  <<SelfC("media", "thumbnail", <<Attr("url", DEFAULT_THUMB_URL)>>, TRUE),
    Close("", "item")>>

BodyItems ==
  { BodyItem(<<Field("", "description", form, b)>>) : form \in BodyForms, b \in Bodies }
  \cup { BodyItem(<<Field("content", "encoded", form, b)>>) : form \in BodyForms, b \in Bodies }
  \cup { BodyItem(<<Field("", "description", "cdata", b), Field("content", "encoded", "cdata", b)>>) :
           b \in Bodies }

BodyFeeds ==
  { Feed(RssStartTag, <<>>, <<it>>, <<>>) : it \in BodyItems }
  \cup { <<Open("", "html", <<>>), Close("", "html")>> }

InitBody == InitWith(BodyFeeds, {NoWeb})

\* The item rewrite over feeds that vary the bodies of one item.
SpecBody == InitBody /\ [][Next]_vars

\* The items rewriteItems has rewritten so far, as they stand in xml, and
\* what each was before.
Rewritten == 1..(idx - 1)
Before(i) == items[i]
After(i) == MatchItems(xml)[i]

\* C4: the text placed in an item's description and content:encoded, after
\* flattening and truncation and before escapeCdata, has at most
\* CONTENT_MAX_CHARS characters, the ellipsis included.
C4_BodyCap ==
  pc = "rewrite" =>
    \A i \in Rewritten :
      /\ BlockIdx(After(i), "", "description") # 0 =>
           Len(After(i)[BlockIdx(After(i), "", "description")].text) <= CONTENT_MAX_CHARS
      /\ BlockIdx(Before(i), "content", "encoded") # 0 =>
           Len(ContentText(Before(i)[BlockIdx(Before(i), "content", "encoded")]))
             <= CONTENT_MAX_CHARS

\* C5: with the same page responses on both runs, rewriting a rewritten item
\* again gives the same item: R(R(x)) = R(x).
C5_RewriteIdempotent ==
  pc = "rewrite" =>
    \A i \in Rewritten : rewriteItem(After(i), web) = After(i)

\* The href symbols of the addresses no anchor may keep.
UnsafeHrefs == {"href=mailto:", "href=tel:", "href=javascript:", "href=#"}

\* s holds an <a ...> start tag with an unsafe href.
HasUnsafeAnchor(s) ==
  \E i \in 1..Len(s) :
    /\ StartTagEnd(s, i, {"a"}) # 0
    /\ \E k \in (i + 2)..(StartTagEnd(s, i, {"a"}) - 1) : s[k] \in UnsafeHrefs

\* C6: whether the markup of the input body is raw or entity-encoded, the
\* content:encoded body of the written feed holds no <a> element with a
\* mailto:, tel:, javascript: or bare-fragment href.
C6_NoUnsafeAnchor ==
  file.kind = "feed" =>
    \A i \in 1..Len(file.body) :
      (file.body[i].k = "field" /\ IsElem(file.body[i], "content", "encoded")) =>
        ~HasUnsafeAnchor(file.body[i].text)

(***************************************************************************)
(* rewriteItems of build-news.mjs over items that vary the body of         *)
(* content:encoded.  The machine starts where the loop starts, with the    *)
(* items matched.                                                          *)
(***************************************************************************)
MaxNewsFragments == 3

NewsFragments ==
  { <<"t">>,
    <<"t", "t", "t", "t">>,
    <<"<", "a", ">", "t", "<", "/a", ">">>,
    <<"<", "a", ">", "t", "<", "/a", " ", ">">>,
    <<"<", "a", ">", "<", "a", ">", "t", "<", "/a", ">", "<", "/a", ">">>,
    <<"<", "a", "href=mailto:", ">", "t", "<", "/a", ">">>,
    <<"<", "a", "href=https:", ">", "read more", "<", "/a", ">">>,
    <<"<", "h2", ">">>,
    <<"<", "/h2", ">">>,
    <<"<", "ul", ">">>,
    <<"<", "/ul", ">">> }

NewsBodies == { Concat(b) : b \in SeqsUpTo(NewsFragments, MaxNewsFragments) }

NewsItem(lead, form, body) ==
  <<Open("", "item", <<>>), Field("", "title", "raw", <<"t">>)>> \o lead \o
  <<Field("content", "encoded", form, body),
    SelfC("media", "thumbnail", <<Attr("url", DEFAULT_THUMB_URL)>>, TRUE),
    Close("", "item")>>

NewsFeeds ==
  { Feed(RssStartTag, <<>>, <<NewsItem(lead, form, b)>>, <<>>) :
      lead \in {<<>>, <<Field("snf", "analytics", "raw", <<"t">>)>>},
      form \in {"cdata", "cdata_ws", "raw"},
      b \in NewsBodies }

InitNews ==
  /\ pc = "news"
  /\ src \in NewsFeeds
  /\ web = NoWeb
  /\ xml = src
  /\ items = MatchItems(src)
  /\ idx = 1
  /\ requests = {}
  /\ err = <<>>
  /\ file = NoFile
  /\ exitCode = -1

\* One turn of the loop of rewriteItems of build-news.mjs.
NewsRewriteItem ==
  /\ pc = "news"
  /\ idx <= Len(items)
  /\ xml' = ReplaceFirst(xml, items[idx], newsRewriteItem(items[idx], web))
  /\ idx' = idx + 1
  /\ UNCHANGED <<pc, src, web, items, requests, err, file, exitCode>>

NextNews == NewsRewriteItem

SpecNews == InitNews /\ [][NextNews]_vars

\* The positions of the <a ...> start tags of s.
AnchorStarts(s) == {i \in 1..(Len(s) - 1) : s[i] = "<" /\ s[i + 1] = "a"}

\* s holds an anchor inside a heading: after a heading's start tag and
\* before the closing tag of that heading.
AnchorInHeading(s) ==
  \E i \in 1..(Len(s) - 1) :
    /\ s[i] = "<" /\ s[i + 1] \in Headings
    /\ \E a \in AnchorStarts(s) :
         /\ a > i
         /\ \A j \in (i + 1)..(a - 1) : ~(s[j] = "<" /\ s[j + 1] = EndTag[s[i + 1]])
         /\ \E j \in (a + 1)..(Len(s) - 1) : s[j] = "<" /\ s[j + 1] = EndTag[s[i + 1]]

\* C7: in the link-retaining policy, the body that the content:encoded
\* rewrite leaves holds at most MAX_LINKS <a> elements, and none inside an
\* h1..h6 element.
C7_AnchorCap ==
  pc = "news" =>
    \A i \in Rewritten :
      NewsContentIdx(Before(i)) # 0 =>
        LET body == After(i)[NewsContentIdx(After(i))].text
        IN Cardinality(AnchorStarts(body)) <= MAX_LINKS /\ ~AnchorInHeading(body)

(***************************************************************************)
(* Items that vary the thumbnail candidates and the author: an existing    *)
(* media:thumbnail, a media:content, an enclosure, a dc:creator, and the   *)
(* page behind the item's link.                                            *)
(***************************************************************************)
ItemLink == <<"https://", "site.com", "/a">>
JpgUrl == <<"https://", "host", "/img", ".jpg">>
HttpJpgUrl == <<"http://", "host", "/img", ".jpg">>
SvgUrl == <<"https://", "host", "/img", ".svg">>
Mp4Url == <<"https://", "host", "/clip", ".mp4">>
PngUrl == <<"https://", "host", "/cover", ".png">>
ScriptUrl == <<"javascript:", "x">>

ThumbnailChoices ==
  { <<>>,
    <<SelfC("media", "thumbnail", <<Attr("url", JpgUrl)>>, TRUE)>>,
    <<SelfC("media", "thumbnail", <<Attr("url", HttpJpgUrl)>>, TRUE)>>,
    <<SelfC("media", "thumbnail", <<Attr("url", SvgUrl)>>, TRUE)>>,
    <<Open("media", "thumbnail", <<Attr("url", HttpJpgUrl)>>), Close("media", "thumbnail")>>,
    <<SelfC("media", "thumbnail", <<Attr("url", JpgUrl)>>, TRUE),
      SelfC("media", "thumbnail", <<Attr("url", ScriptUrl)>>, TRUE)>> }

MediaChoices ==
  { <<>>,
    <<SelfC("media", "content", <<Attr("url", JpgUrl)>>, TRUE)>>,
    <<SelfC("media", "content", <<Attr("url", Mp4Url)>>, TRUE)>> }

EnclosureChoices ==
  { <<>>, <<SelfC("", "enclosure", <<Attr("url", PngUrl)>>, TRUE)>> }

AuthorChoices ==
  { <<>>, <<Field("dc", "creator", "cdata", <<"Ann">>)>> }

ThumbItem(th, mc, en, au) ==
  <<Open("", "item", <<>>), Field("", "title", "raw", <<"t">>),
    Field("", "link", "raw", ItemLink)>> \o au \o mc \o en \o th \o <<Close("", "item")>>

ThumbFeeds ==
  { Feed(RssStartTag, <<>>, <<ThumbItem(th, mc, en, au)>>, <<>>) :
      th \in ThumbnailChoices, mc \in MediaChoices, en \in EnclosureChoices,
      au \in AuthorChoices }
  \cup { <<Open("", "html", <<>>), Close("", "html")>> }

Pages ==
  { Page(og, author, ld) :
      og \in {Null, PngUrl, SvgUrl},
      author \in {Null, <<"Jane Doe">>},
      ld \in {<<>>, <<LdBlock(TRUE, JObj(<<"author">>, <<JStr(<<"Joe">>)>>))>>} }

Responses ==
  { Response(TRUE, FALSE, NoPage), Response(FALSE, FALSE, NoPage) }
  \cup { Response(FALSE, TRUE, html) : html \in Pages }

Webs == { [l \in {ItemLink} |-> r] : r \in Responses }

InitThumb == InitWith(ThumbFeeds, Webs)

\* The item rewrite over feeds that vary the thumbnail candidates, the
\* author and the article page of one item.
SpecThumb == InitThumb /\ [][Next]_vars

\* The media:thumbnail elements of x, in any form.
Thumbnails(x) ==
  SelectSeq(x, LAMBDA t : IsElement(t) /\ IsElem(t, "media", "thumbnail"))

\* C8: every media:thumbnail element of the written feed, carried over or
\* inserted, has a url of the https scheme with an allowed image extension.
C8_ThumbnailUrls ==
  file.kind = "feed" =>
    \A i \in 1..Len(Thumbnails(file.body)) :
      LET t == Thumbnails(file.body)[i]
      IN /\ HasAttr(t, "url")
         /\ AttrVal(t, "url") # <<>>
         /\ AttrVal(t, "url")[1] = "https://"
         /\ AllowedImgExt(AttrVal(t, "url"))

\* A candidate the thumbnail step accepts.
Acceptable(u) == sanitizeUrl(u) # Null /\ AllowedImgExt(sanitizeUrl(u))

\* C9: a rejected thumbnail candidate is skipped and the next one tried, so
\* an item is left without a thumbnail only if the default is rejected too.
C9_ThumbnailFallThrough ==
  pc = "rewrite" =>
    \A i \in Rewritten :
      Acceptable(DEFAULT_THUMB_URL) => Thumbnails(After(i)) # <<>>

\* x holds an element pfx:name whose text is v.
HasFieldWith(x, pfx, name, v) ==
  \E j \in 1..Len(x) :
    x[j].k = "field" /\ x[j].pfx = pfx /\ x[j].name = name /\ x[j].text = v

\* C10: an item with neither dc:creator nor author, whose link page is
\* fetched successfully and holds <meta name="author" content="X">, is
\* rewritten with a dc:creator and an author element that hold X, whatever
\* thumbnail, media:content or enclosure it carries.
C10_AuthorBackfill ==
  pc = "rewrite" =>
    \A i \in Rewritten :
      LET res == FetchPage(web, LinkOf(Before(i)))
      IN ( /\ ~HasSimple(Before(i), "dc", "creator")
           /\ ~HasSimple(Before(i), "", "author")
           /\ ~res.thrown /\ res.ok
           /\ res.html.author # Null )
         => /\ HasFieldWith(After(i), "dc", "creator", res.html.author)
            /\ HasFieldWith(After(i), "", "author", res.html.author)

(***************************************************************************)
(* Items that vary the link: a base address and a query of at most         *)
(* MaxParams parameters, separated by "&" or by "&amp;" as the text of an  *)
(* XML element writes it.                                                  *)
(***************************************************************************)
MaxParams == 2

LinkBases ==
  { <<"https://", "site.com", "/a">>, <<"HTTP://", "HOST">>, <<"/relative">> }

LinkParams == {"utm_source=x", "utm_campaign=x", "id=5", "q=a%20b", "flag"}

Separators == { <<"&">>, <<"&", "amp;">> }

Queries ==
  LET f[n \in 0..MaxParams] ==
        IF n = 0 THEN { <<>> }
        ELSE IF n = 1 THEN { <<"?", p>> : p \in LinkParams }
        ELSE { q \o sep \o <<r>> : q \in f[n - 1], sep \in Separators, r \in LinkParams }
  IN UNION { f[n] : n \in 0..MaxParams }

Links ==
  { b \o q \o f : b \in LinkBases, q \in Queries, f \in { <<>>, <<"#", "f">> } }

LinkItem(link) ==
  <<Open("", "item", <<>>), Field("", "title", "raw", <<"t">>),
    Field("", "link", "raw", link),
    SelfC("media", "thumbnail", <<Attr("url", DEFAULT_THUMB_URL)>>, TRUE),
    Close("", "item")>>

LinkFeeds ==
  { Feed(RssStartTag, <<>>, <<LinkItem(l)>>, <<>>) : l \in Links }
  \cup { <<Open("", "html", <<>>), Close("", "html")>> }

InitLink == InitWith(LinkFeeds, {NoWeb})

\* The item rewrite over feeds that vary the link of one item.
SpecLink == InitLink /\ [][Next]_vars

\* The link of an item, as the text of its <link> element.
LinkText(x) == x[LinkIdx(x, TRUE)].text

\* The decoded form of one symbol of a query: "%3B" is ";", "+" and "%20"
\* are a space, and a name without "=" has the empty value.
Decoded(x) ==
  CASE x = "amp%3B" -> "amp;"
    [] x \in {"q=a%20b", "q=a+b"} -> "q=a b"
    [] x \in {"flag", "flag="} -> "flag="
    [] OTHER -> x

\* The query parameters of a link, each with its decoded key and value, in
\* the order of the link.
DecodedParams(l) ==
  LET ps == QueryParams(l)
  IN [i \in 1..Len(ps) |-> [j \in 1..Len(ps[i]) |-> Decoded(ps[i][j])]]

IsUtm(t) == Len(t) = 1 /\ t[1] \in UtmParams

MaxTitleFragments == 3

TitleFragments ==
  { <<"t">>, <<"t", " ">>, <<" ">>, <<"\n">>, <<"in">>, <<"IN">>, <<"[">>, <<"]">>,
    <<"[", "x", "]">>, <<" ", "[", "x", "]">>, <<"&", "#124;">> }

Titles == { Concat(t) : t \in SeqsUpTo(TitleFragments, MaxTitleFragments) }

TitleItem(form, title) ==
  <<Open("", "item", <<>>), Field("", "title", form, title),
    SelfC("media", "thumbnail", <<Attr("url", DEFAULT_THUMB_URL)>>, TRUE),
    Close("", "item")>>

TitleFeeds ==
  { Feed(RssStartTag, <<>>, <<TitleItem(form, t)>>, <<>>) : form \in BodyForms, t \in Titles }
  \cup { <<Open("", "html", <<>>), Close("", "html")>> }

InitTitle == InitWith(TitleFeeds, {NoWeb})

\* The item rewrite over feeds that vary the title of one item.
SpecTitle == InitTitle /\ [][Next]_vars

\* The title of an item, as the text of its <title> element.
TitleText(x) == x[BlockIdx(x, "", "title")].text

\* A bracketed annotation starts at i: "[", at least one symbol that is not
\* "]", and the next "]".
AnnotationAt(s, i) ==
  /\ s[i] = "[" /\ i + 1 <= Len(s) /\ s[i + 1] # "]"
  /\ \E j \in (i + 2)..Len(s) : s[j] = "]"

\* What a reader sees of a title: its symbols from left to right, without
\* the annotations and the blanks, and with &#124; read as |.
Visible(s) ==
  LET n == Len(s)
      f[i \in 1..(n + 1)] ==
        IF i > n THEN <<>>
        ELSE IF AnnotationAt(s, i)
          THEN f[(CHOOSE j \in (i + 2)..n : s[j] = "]" /\ \A k \in (i + 2)..(j - 1) : s[k] # "]") + 1]
        ELSE IF s[i] \in Blank THEN f[i + 1]
        ELSE IF s[i] = "&" /\ i + 1 <= n /\ s[i + 1] = "#124;" THEN <<"|">> \o f[i + 2]
        ELSE <<s[i]>> \o f[i + 1]
  IN f[1]

\* The title ends with the word "in", in either letter case, standing alone.
EndsWithWordIn(s) ==
  /\ s # <<>> /\ s[Len(s)] \in {"in", "IN"}
  /\ (Len(s) = 1 \/ s[Len(s) - 1] \notin {"t", "in", "IN"})

\* The cleaned title of an output title: the title without the year that
\* was appended to it.
Cleaned(o) ==
  IF o # <<>> /\ o[Len(o)] = "year" THEN SubSeq(o, 1, Len(o) - 1) ELSE o

\* C12: the cleaned title has no bracketed annotation, no &#124;, no run of
\* whitespace and no whitespace at either end, and shows what the title
\* showed; the year follows it, with no space, exactly when it ends with the
\* standalone word "in".
C12_TitleCleanup ==
  pc = "rewrite" =>
    \A i \in Rewritten :
      LET t == TitleText(Before(i))
          o == TitleText(After(i))
          c == Cleaned(o)
      IN /\ \A k \in 1..Len(c) : ~AnnotationAt(c, k)
         /\ \A k \in 1..(Len(c) - 1) : ~(c[k] = "&" /\ c[k + 1] = "#124;")
         /\ \A k \in 1..(Len(c) - 1) : ~(c[k] \in Blank /\ c[k + 1] \in Blank)
         /\ c # <<>> => (c[1] \notin Blank /\ c[Len(c)] \notin Blank)
         /\ Visible(c) = Visible(t)
         /\ (o # c) <=> EndsWithWordIn(c)

\* "Coming in [current_date]" has become "Coming in" and the year.
C12_Witness ==
  /\ pc = "rewrite" /\ idx = 2
  /\ TitleText(Before(1)) = <<"t", " ", "in", " ", "[", "x", "]">>
  /\ TitleText(After(1)) = <<"t", " ", "in", "year">>

\* C13: a failure of main ends the run with a non-zero exit status, also
\* when the diagnostic file cannot be written; when it can, the output file
\* is the <error> document and never a feed.
C13_FatalDiagnostics ==
  [][pc = "catch" =>
       /\ pc' = "exited"
       /\ exitCode' # 0
       /\ \/ file'.kind = "error" /\ file'.body = ErrorDocument(err)
          \/ file' = file /\ file'.kind = "none"]_vars

\* main failed and the diagnostic document was written.
C13_Witness ==
  pc = "exited" /\ exitCode = 1 /\ file.kind = "error"

\* The run has gone past the root test.
PastRootTest == pc \in {"selflink", "limit", "rewrite", "done"}

\* The payload holds the start of an <rss ...> tag, in any letter case.
HasRootMarker(x) ==
  \E i \in 1..Len(x) :
    x[i].k \in {"open", "self"} /\ x[i].pfx = "" /\ toLowerCase(x[i].name) = "rss"

\* C14: a payload without the <rss root marker makes main throw at the root
\* test: from there on nothing is normalized, no article page is asked for,
\* no feed is written and the run never ends with success.
C14_RootMarkerMissing ==
  [](pc = "fetched" /\ ~HasRootMarker(xml) =>
       [](/\ ~PastRootTest
          /\ xml = src
          /\ requests = {}
          /\ file.kind # "feed"
          /\ exitCode # 0))

\* The run of a payload without the marker has ended: it exited with a
\* failure, and the payload stands as it was fetched.
C14_Witness ==
  /\ pc = "exited" /\ ~HasRootMarker(xml) /\ xml = src /\ xml # <<>>
  /\ exitCode = 1 /\ requests = {}


(***************************************************************************)
(* The guarded build (part_000): main normalizes the document, sanitizes   *)
(* the items, tests two guards and only then writes the feed; its catch    *)
(* handler writes nothing and exits with status 1.                         *)
(***************************************************************************)
\* xml.replace(/\s+xmlns:snf="[^"]*"/gi, "")
GuardedStripXmlns(x) ==
  [i \in 1..Len(x) |->
     [x[i] EXCEPT !.attrs =
        SelectSeq(x[i].attrs,
                  LAMBDA a : ~(a.n = "xmlns" /\ toLowerCase(a.p) = "snf" /\ a.q = "dq"))]]

\* xml.replace(/<channel>/i, `<channel>\n    <atom:link href=... rel="self" ... />`)
GuardedInsertSelfLink(x) ==
  LET n == Len(x)
      m == [i \in 1..n |-> IF IsChannelStart(x[i], TRUE) THEN 1 ELSE 0]
  IN SubstFirst(x, m, [i \in 1..n |-> <<x[i], Text("\n"), SelfLinkTag>>])

\* limitItems of the guarded build: the text before the first <item>, the
\* first n items joined by "\n", and "\n</channel>\n</rss>".
guardedLimitItems(x, n) ==
  LET sp == ItemSpans(x)
      its == MatchItems(x)
  IN IF Len(its) <= n THEN x
     ELSE SubSeq(x, 1, sp[1][1] - 1) \o Join(SubSeq(its, 1, n), <<Text("\n")>>) \o
          <<Text("\n"), Close("", "channel"), Text("\n"), Close("", "rss")>>

\* toPlain(s): unwrapCdata, the breaks, the tags stripped, the entities
\* decoded, trimmed and cut at CONTENT_MAX_CHARS; the helpers it calls are
\* those of build-feed.mjs.
toPlain(f) == DescriptionText(f)

\* The callback of sanitizeItems on one item.
sanitizeItem(item) ==
  LET d == BlockIdx(item, "", "description")
      out == IF d = 0 THEN item
             ELSE [item EXCEPT ![d] = Field("", "description", "cdata", toPlain(item[d]))]
      c == BlockIdx(out, "content", "encoded")
  IN IF c = 0 THEN out
     ELSE [out EXCEPT ![c] =
             Field("content", "encoded", "cdata",
                   <<"<", "p", ">">> \o escapeCdata(toPlain(out[c])) \o <<"<", "/p", ">">>)]

\* xml.replace(/<item>[\s\S]*?<\/item>/g, (item) => ...)
sanitizeItems(x) ==
  LET sp == ItemSpans(x)
      n == Len(x)
      m == [i \in 1..n |->
              IF \E j \in 1..Len(sp) : sp[j][1] = i
              THEN (CHOOSE j \in 1..Len(sp) : sp[j][1] = i) \* the span that starts at i
              ELSE 0]
  IN Subst(x, [i \in 1..n |-> IF m[i] = 0 THEN 0 ELSE sp[m[i]][2] - i + 1],
           [i \in 1..n |-> IF m[i] = 0 THEN <<>> ELSE sanitizeItem(SubSeq(x, i, sp[m[i]][2]))])

\* xml.replace(/^\uFEFF/, "").replace(/^\s*<\?xml[^>]*\?>\s*/i, "")
StripDecl(x) ==
  IF NormalizeDecl(x) = <<XmlDecl, Text("\n")>> \o x THEN x
  ELSE Slice(NormalizeDecl(x), 3, Len(NormalizeDecl(x)))

\* xml.trim() on a document: the white space at its two ends goes.
TrimDocument(x) ==
  IF \A i \in 1..Len(x) : IsWs(x[i]) THEN <<>>
  ELSE SubSeq(x, CHOOSE i \in 1..Len(x) : ~IsWs(x[i]) /\ \A j \in 1..(i - 1) : IsWs(x[j]),
                 CHOOSE i \in 1..Len(x) : ~IsWs(x[i]) /\ \A j \in (i + 1)..Len(x) : IsWs(x[j]))

\* Steps 0 to 7 of main: from the fetched text to the assembled document.
Assemble(x) ==
  <<XmlDecl, Text("\n")>> \o
  TrimDocument(
    sanitizeItems(
      guardedLimitItems(
        GuardedInsertSelfLink(
          RemoveSelfLinks(
            RebuildRoot(
              StripSnfSelfClosing(StripSnfBlocks(GuardedStripXmlns(StripDecl(x))))))),
        ITEM_LIMIT))) \o
  <<Text("\n")>>

\* /xmlns:\s*snf\s*=|<snf:/i.test(xml)
SnfGuardFails(x) ==
  \E i \in 1..Len(x) :
    \/ \E a \in 1..Len(x[i].attrs) :
         x[i].attrs[a].n = "xmlns" /\ toLowerCase(x[i].attrs[a].p) = "snf"
    \/ x[i].k \in {"open", "self", "field"} /\ IsSnf(x[i])

\* xml.match(/<atom:link[^>]+rel=["']self["'][^>]+href=["']([^"']+)["']/i)?.[1] || "":
\* the first atom:link tag with a rel="self" and, after it, an href; the
\* href is the last one of the tag.
SelfHref(x) ==
  LET reads(t) ==
        \E a \in 1..Len(t.attrs) : \E b \in (a + 1)..Len(t.attrs) :
          /\ t.attrs[a].n = "rel" /\ t.attrs[a].v = <<"self">>
          /\ t.attrs[b].n = "href" /\ t.attrs[b].v # <<>>
      hits == {i \in 1..Len(x) : IsTag(x[i]) /\ IsAtomLink(x[i]) /\ reads(x[i])}
  IN IF hits = {} THEN <<>>
     ELSE AttrVal(x[CHOOSE i \in hits : \A j \in hits : i <= j], "href")

\* const res = await fetch(SOURCE_FEED_URL, ...); if (!res.ok) throw ...
GuardedFetch ==
  /\ pc = "g_start"
  /\ \/ /\ pc' = "g_fetched"
        /\ xml' = src
        /\ err' = err
     \/ /\ pc' = "g_catch"
        /\ xml' = xml
        /\ \/ err' = <<"TypeError: ", "fetch failed", "\n", "    at fetch">>
           \/ \E statusText \in StatusTexts :
                err' = Stack(<<"Fetch failed: ", "404", " ">> \o statusText)
  /\ UNCHANGED <<src, web, items, idx, requests, file, exitCode>>

\* Steps 0 to 7 of main.
GuardedBuild ==
  /\ pc = "g_fetched"
  /\ pc' = "g_guards"
  /\ xml' = Assemble(xml)
  /\ UNCHANGED <<src, web, items, idx, requests, err, file, exitCode>>

\* Step 8, the two guards.
GuardedCheck ==
  /\ pc = "g_guards"
  /\ IF SnfGuardFails(xml)
     THEN /\ pc' = "g_catch"
          /\ err' = Stack(<<"Guard failed: SmartNews namespace/elements still present.">>)
     ELSE IF SelfHref(xml) # FEED_SELF_URL
     THEN /\ pc' = "g_catch"
          /\ err' = Stack(<<"Guard failed: rel=self is ", "dquote">> \o SelfHref(xml) \o <<"dquote">>)
     ELSE /\ pc' = "g_write"
          /\ err' = err
  /\ UNCHANGED <<src, web, xml, items, idx, requests, file, exitCode>>

\* writeFileSync(OUTPUT, xml, "utf8")
GuardedWrite ==
  /\ pc = "g_write"
  /\ \E written \in BOOLEAN :
       /\ pc' = IF written THEN "done" ELSE "g_catch"
       /\ file' = IF written THEN [kind |-> "feed", body |-> xml] ELSE file
       /\ exitCode' = IF written THEN 0 ELSE exitCode
       /\ err' = IF written THEN err
                 ELSE Stack(<<"EACCES: permission denied, open ", "squote", "dist/feed.xml", "squote">>)
  /\ UNCHANGED <<src, web, xml, items, idx, requests>>

\* main().catch((err) => { console.error(err.stack || err); process.exit(1); })
GuardedCatch ==
  /\ pc = "g_catch"
  /\ pc' = "exited"
  /\ exitCode' = 1
  /\ UNCHANGED <<src, web, xml, items, idx, requests, err, file>>

NextGuarded ==
  \/ GuardedFetch
  \/ GuardedBuild
  \/ GuardedCheck
  \/ GuardedWrite
  \/ GuardedCatch

\* What the channel of a source of the guarded build may hold before its
\* items: SmartNews elements and declarations, and self links in the forms
\* the steps and the guard tell apart.
GuardedHeadFragments ==
  { <<Field("", "title", "raw", <<"t">>)>>,
    <<Open("snf", "logo", <<>>), Text("x"), Close("snf", "logo")>>,
    <<Open("snf", "logo", <<>>)>>,
    <<SelfC("SNF", "logo", <<>>, TRUE)>>,
    <<Open("", "image", <<XmlnsAttr("snf", SMARTNEWS_URI, "sq")>>), Close("", "image")>>,
    <<SelfC("atom", "link", <<Attr("rel", <<"self">>), Attr("href", OLD_SELF_URL)>>, TRUE)>>,
    <<Open("atom", "link", <<Attr("href", OLD_SELF_URL), Attr("rel", <<"self">>)>>),
      Close("atom", "link")>>,
    <<Open("atom", "link", <<Attr("rel", <<"self">>), Attr("href", OLD_SELF_URL)>>),
      Close("atom", "link")>>,
    <<Open("atom", "link", <<Attr("rel", <<"self">>), Attr("href", FEED_SELF_URL)>>),
      Close("atom", "link")>> }

\* The root of a source that declares no namespace of SmartNews.
CleanRoot == Open("", "rss", <<Attr("version", <<"2.0">>)>>)

GuardedFeeds ==
  { Feed(root, Concat(h), [i \in 1..n |-> PlainItem(ItemNames[i])], <<>>) :
      root \in {SourceRoot, CleanRoot},
      h \in SeqsUpTo(GuardedHeadFragments, MaxFragments),
      n \in 0..(ITEM_LIMIT + 1) }
  \cup { <<XmlDecl, Text("\n")>> \o Feed(SourceRoot, <<>>, <<BodyItem(<<Field("", "description", "raw", <<"<", "p", ">", "t", "<", "/p", ">">>)>>)>>, <<>>) }

InitGuarded ==
  /\ pc = "g_start"
  /\ src \in GuardedFeeds
  /\ web = NoWeb
  /\ xml = <<>>
  /\ items = <<>>
  /\ idx = 0
  /\ requests = {}
  /\ err = <<>>
  /\ file = NoFile
  /\ exitCode = -1

\* The guarded build over feeds that vary the channel.
SpecGuarded == InitGuarded /\ [][NextGuarded]_vars

\* The document holds a declaration of the snf namespace.
HasSnfDeclaration(x) ==
  \E i \in 1..Len(x) : \E a \in 1..Len(x[i].attrs) :
    x[i].attrs[a].n = "xmlns" /\ toLowerCase(x[i].attrs[a].p) = "snf"

\* The document holds the start of an element of the snf prefix.
HasSnfElement(x) ==
  \E i \in 1..Len(x) : x[i].k \in {"open", "self", "field"} /\ toLowerCase(x[i].pfx) = "snf"

\* The document holds a rel="self" atom:link whose href is not FEED_SELF_URL.
HasWrongSelfHref(x) ==
  \E i \in 1..Len(x) :
    /\ IsTag(x[i]) /\ IsAtomLink(x[i]) /\ HasRelSelf(x[i])
    /\ (~HasAttr(x[i], "href") \/ AttrVal(x[i], "href") # FEED_SELF_URL)

\* C15: when the assembled document still holds an snf declaration or an
\* snf element, or a rel="self" atom:link whose href differs from
\* FEED_SELF_URL, the run does not get past the guards: it does not reach
\* the write, the feed is not written and the run does not end with success.
C15_GuardedWrite ==
  (pc \in {"g_write", "done"} \/ file.kind = "feed" \/ exitCode = 0) =>
    ~(HasSnfDeclaration(xml) \/ HasSnfElement(xml) \/ HasWrongSelfHref(xml))

(***************************************************************************)
(* Two items with their own article pages: the fetch of a page throws,     *)
(* answers with a failure status, or answers with a page whose JSON-LD     *)
(* does not parse.                                                         *)
(***************************************************************************)
PageLink(n) == <<"https://", "site.com", "/a", n>>

FetchItem(n, th) ==
  <<Open("", "item", <<>>),
    Field("", "title", "raw", <<"t", n, " ", "[", "x", "]">>),
    Field("", "description", "cdata", <<"<", "p", ">", "t", "<", "/p", ">">>),
    Field("", "link", "raw", PageLink(n) \o <<"?", "utm_source=x">>)>> \o th \o
  <<Close("", "item")>>

FetchFeeds ==
  { Feed(RssStartTag, <<>>, <<FetchItem("1", a), FetchItem("2", b)>>, <<>>) :
      a \in {<<>>, <<ThumbTag(JpgUrl)>>}, b \in {<<>>, <<ThumbTag(JpgUrl)>>} }
  \cup { <<Open("", "html", <<>>), Close("", "html")>> }

GoodLd == LdBlock(TRUE, JObj(<<"author">>, <<JStr(<<"Joe">>)>>))
BadLd == LdBlock(FALSE, JNull)

FetchResponses ==
  { Response(TRUE, FALSE, NoPage),
    Response(FALSE, FALSE, NoPage),
    Response(FALSE, TRUE, Page(PngUrl, Null, <<BadLd>>)),
    Response(FALSE, TRUE, Page(Null, Null, <<BadLd, GoodLd>>)),
    Response(FALSE, TRUE, Page(PngUrl, <<"Jane Doe">>, <<>>)) }

FetchWebs == [{PageLink("1"), PageLink("2")} -> FetchResponses]

InitFetch == InitWith(FetchFeeds, FetchWebs)

\* The item rewrite over two items and the pages behind their links.
SpecFetch == InitFetch /\ [][Next]_vars

\* The fetch of the page fails: it throws, its status is not a success, or
\* a JSON-LD block of the page does not parse.
FetchFails(r) ==
  r.thrown \/ ~r.ok \/ \E b \in 1..Len(r.html.ld) : ~r.html.ld[b].parses

\* The webs that differ from w at most in the page behind link.
WebsBut(w, link) == { v \in FetchWebs : \A l \in DOMAIN w : l # link => v[l] = w[l] }

\* The text of the first element pfx:name of an item.
FieldText(x, pfx, name) == x[BlockIdx(x, pfx, name)].text

\* C16: the rewrite of an item whose page fetch fails goes on to the next
\* item; the item has its title, description and link rewritten; the other
\* items of the document stay as they are, and what their rewrite gives
\* does not depend on the page that failed.
C16_FetchFailureIsLocal ==
  [][(pc = "rewrite" /\ idx <= Len(items) /\ LinkOf(items[idx]) \in DOMAIN web
        /\ FetchFails(web[LinkOf(items[idx])])) =>
       /\ pc' = "rewrite" /\ idx' = idx + 1
       /\ Len(MatchItems(xml')) = Len(MatchItems(xml))
       /\ LET out == MatchItems(xml')[idx]
          IN /\ FieldText(out, "", "title") = <<"t", ItemNames[idx]>>
             /\ FieldText(out, "", "description") = <<"t">>
             /\ FieldText(out, "", "link") = PageLink(ItemNames[idx])
       /\ \A j \in 1..Len(items) :
            j # idx =>
              /\ MatchItems(xml')[j] = MatchItems(xml)[j]
              /\ \A v \in WebsBut(web, LinkOf(items[idx])) :
                   rewriteItem(items[j], v) = rewriteItem(items[j], web)]_vars

\* The fetch of the first item's page threw, the second item's page gave an
\* author, and both items have been rewritten.
C16_Witness ==
  /\ pc = "rewrite" /\ idx = 3
  /\ web[PageLink("1")].thrown
  /\ ~FetchFails(web[PageLink("2")])
  /\ FieldText(After(1), "", "title") = <<"t", "1">>
  /\ HasSimple(After(2), "dc", "creator")
  /\ ~HasSimple(After(1), "dc", "creator")

(***************************************************************************)
(* Items whose bodies hold the end mark of a CDATA section, written with   *)
(* the entity of ">" as a text must write it.                              *)
(***************************************************************************)
CdataFragments ==
  { <<"t">>, <<" ">>, <<"]]">>, <<"&", "gt;">>, <<"]]", "&", "gt;">> }

CdataBodies == { Concat(b) : b \in SeqsUpTo(CdataFragments, MaxBodyFragments) }

CdataItems ==
  { BodyItem(<<Field("", "description", form, b)>>) : form \in BodyForms, b \in CdataBodies }
  \cup { BodyItem(<<Field("content", "encoded", form, b)>>) : form \in BodyForms, b \in CdataBodies }

CdataFeeds ==
  { Feed(RssStartTag, <<>>, <<it>>, <<>>) : it \in CdataItems }
  \cup { <<Open("", "html", <<>>), Close("", "html")>> }

InitCdata == InitWith(CdataFeeds, {NoWeb})

\* The item rewrite over bodies that hold "]]" and the entity of ">".
SpecCdata == InitCdata /\ [][Next]_vars

\* The text holds "]]>".
HasCdataEnd(s) == \E k \in 1..(Len(s) - 1) : s[k] = "]]" /\ s[k + 1] = ">"

\* C17: in the written feed, no CDATA section of a description or of a
\* content:encoded holds "]]>" in its text.
C17_NoRawCdataEnd ==
  file.kind = "feed" =>
    \A i \in 1..Len(file.body) :
      (/\ file.body[i].k = "field"
       /\ file.body[i].form = "cdata"
       /\ (IsElem(file.body[i], "", "description") \/ IsElem(file.body[i], "content", "encoded")))
      => ~HasCdataEnd(file.body[i].text)

(***************************************************************************)
(* Items that vary the url of an existing media:thumbnail: the scheme, a   *)
(* blank in front, the host, the path and the query.                       *)
(***************************************************************************)
UrlSchemes ==
  {"http://", "HTTP://", "https://", "data:", "mailto:", "tel:", "javascript:", "ftp://"}

UrlHosts == { <<"example.com">>, <<"HOST">>, <<"bad", " ", "host">> }

UrlPaths == { <<>>, <<"/img", ".PNG">>, <<"/my", " ", "img", ".png">> }

UrlInputs ==
  { pre \o <<sch>> \o h \o pa \o q :
      pre \in {<<>>, <<" ">>}, sch \in UrlSchemes, h \in UrlHosts, pa \in UrlPaths,
      q \in {<<>>, <<"?", "x=1">>} }
  \cup { <<"/img", ".png">> }

UrlItem(u) ==
  <<Open("", "item", <<>>), Field("", "title", "raw", <<"t">>),
    SelfC("media", "thumbnail", <<Attr("url", u)>>, TRUE), Close("", "item")>>

UrlFeeds ==
  { Feed(RssStartTag, <<>>, <<UrlItem(u)>>, <<>>) : u \in UrlInputs }
  \cup { <<Open("", "html", <<>>), Close("", "html")>> }

InitUrl == InitWith(UrlFeeds, {NoWeb})

\* The item rewrite over thumbnails whose url varies.
SpecUrl == InitUrl /\ [][Next]_vars

\* The url of the thumbnail of the source item, and the thumbnails of the
\* rewritten item.
InputUrl == AttrVal(Thumbnails(Before(1))[1], "url")
OutputThumbnails == Thumbnails(After(1))

\* The input starts, after the white space in front of it, with http:// or
\* https:// in either letter case.
StartsWithHttp(u) ==
  \E i \in 1..Len(u) :
    /\ u[i] \in {"http://", "HTTP://", "https://", "HTTPS://"}
    /\ \A j \in 1..(i - 1) : u[j] \in Blank

\* The input without the white space at its ends and without its scheme,
\* each white space inside written %20.
Unchanged(u) ==
  LET keep == {i \in 1..Len(u) : u[i] \notin Blank}
      first == CHOOSE i \in keep : \A j \in keep : i <= j
      last == CHOOSE i \in keep : \A j \in keep : j <= i
  IN [i \in 1..(last - first) |-> IF u[first + i] \in Blank THEN "%20" ELSE u[first + i]]

\* The same as URL serialization writes it: the host in lower case and "/"
\* for an empty path; and as encodeURI writes it when the host is not one.
Serialized(r) ==
  IF r[1] \notin {"example.com", "HOST"}
  THEN [i \in 1..Len(r) |-> IF r[i] = "%20" THEN "%2520" ELSE r[i]]
  ELSE <<IF r[1] = "HOST" THEN "host" ELSE r[1]>> \o
       (IF Len(r) = 1 \/ r[2] \in {"?", "#"} THEN <<"/">> ELSE <<>>) \o
       SubSeq(r, 2, Len(r))

\* What the thumbnail step shows of sanitizeUrl: the thumbnail is kept with
\* the returned url when that has an image extension, and dropped otherwise.
ThumbnailFollows(u) ==
  IF sanitizeUrl(u) # Null /\ AllowedImgExt(sanitizeUrl(u))
  THEN Len(OutputThumbnails) = 1 /\ AttrVal(OutputThumbnails[1], "url") = sanitizeUrl(u)
  ELSE OutputThumbnails = <<>>

ErrorPayload == SubSeq(file.body, 5, Len(file.body) - 3)

\* The characters an XML text must not hold raw: "<", ">", the two quotes,
\* and an "&" that does not start one of the five entities.
HasRawCharacter(s) ==
  \E i \in 1..Len(s) :
    \/ s[i] \in {"<", ">", "squote", "dquote"}
    \/ s[i] = "&" /\ (i = Len(s) \/ s[i + 1] \notin {"lt;", "gt;", "amp;", "apos;", "quot;"})

\* The text the five entities of s stand for.
DecodeXml(s) ==
  ReplacePair(
    ReplacePair(
      ReplacePair(
        ReplacePair(
          ReplacePair(s, "&", "lt;", <<"<">>),
          "&", "gt;", <<">">>),
        "&", "apos;", <<"squote">>),
      "&", "quot;", <<"dquote">>),
    "&", "amp;", <<"&">>)

\* C19: the text between <error> and </error> of the diagnostic document
\* holds none of < > & ' " raw and decodes back to the error message.
C19_ErrorPayloadEscaped ==
  file.kind = "error" =>
    /\ ~HasRawCharacter(ErrorPayload)
    /\ DecodeXml(ErrorPayload) = err

(***************************************************************************)
(* Article pages whose JSON-LD holds one or two typed objects with an      *)
(* author, side by side in an array or under @graph; the item has no       *)
(* author of its own.                                                      *)
(***************************************************************************)
AuthorForms(n) ==
  { JStr(<<n>>), JObj(<<"name">>, <<JStr(<<n>>)>>), JArr(<<JStr(<<n>>)>>),
    JArr(<<JObj(<<"name">>, <<JStr(<<n>>)>>)>>) }

Typed(type, a) == JObj(<<"@type", "author">>, <<JStr(<<type>>), a>>)

LdPairs ==
  { JArr(<<Typed(t1, a1), Typed(t2, a2)>>) :
      t1 \in {"WebPage", "Article"}, t2 \in {"WebPage", "Article"},
      a1 \in AuthorForms("Web"), a2 \in AuthorForms("Jane") }

LdValues ==
  { Typed(t, a) : t \in {"WebPage", "Article"}, a \in AuthorForms("Jane") }
  \cup LdPairs
  \cup { JObj(<<"@graph">>, <<pair>>) : pair \in LdPairs }

LdFeeds ==
  { Feed(RssStartTag, <<>>, <<ThumbItem(<<ThumbTag(JpgUrl)>>, <<>>, <<>>, <<>>)>>, <<>>),
    <<Open("", "html", <<>>), Close("", "html")>> }

LdWebs ==
  { [l \in {ItemLink} |-> Response(FALSE, TRUE, Page(Null, Null, <<LdBlock(TRUE, j)>>))] :
      j \in LdValues }

InitLd == InitWith(LdFeeds, LdWebs)

\* The item rewrite over article pages that vary the JSON-LD.
SpecLd == InitLd /\ [][Next]_vars

\* The name an author value gives: the string, the name field of the
\* object, or that of the first element of the array.
AuthorName(a) ==
  IF a.t = "str" THEN a.s
  ELSE IF a.t = "obj" THEN JGet(a, "name").s
  ELSE IF a.v[1].t = "str" THEN a.v[1].s
  ELSE JGet(a.v[1], "name").s

\* The typed objects of a JSON-LD value of this family, in their order.
TypedObjects(j) ==
  IF j.t = "arr" THEN j.v
  ELSE IF JGet(j, "@graph").t = "arr" THEN JGet(j, "@graph").v
  ELSE <<j>>

\* The name the claim asks for: the author of the first object whose @type
\* is Article when there is one, else the author of the first object.
PreferredAuthor(j) ==
  LET objs == TypedObjects(j)
      arts == {i \in 1..Len(objs) : JGet(objs[i], "@type").s = <<"Article">>}
  IN IF arts = {} THEN AuthorName(JGet(objs[1], "author"))
     ELSE AuthorName(JGet(objs[CHOOSE i \in arts : \A k \in arts : i <= k], "author"))

\* C20: the name put into the item is the author of the Article-typed
\* object of the page's JSON-LD, also when an object of another type with an
\* author comes before it; the author is read from a string, from an object
\* with a name, and from an array of either.
C20_ArticleAuthorPreferred ==
  (pc = "rewrite" /\ idx = 2) =>
    /\ HasSimple(After(1), "dc", "creator")
    /\ FieldText(After(1), "dc", "creator") =
         PreferredAuthor(web[ItemLink].html.ld[1].json)

(***************************************************************************)
(* Items that vary the author the source gives: none, a dc:creator, an     *)
(* author, or both, with or without a media:thumbnail, and article pages   *)
(* that give a name in the meta tag (one of them with "$" in it), in       *)
(* JSON-LD, or not at all.                                                 *)
(***************************************************************************)
SourceAuthors ==
  { <<>>,
    <<Field("dc", "creator", "cdata", <<"Ann">>)>>,
    <<Field("", "author", "raw", <<"ann@site.com", " ", "(", "Ann", ")">>)>>,
    <<Field("dc", "creator", "raw", <<"Ann">>), Field("", "author", "raw", <<>>)>> }

AuthorFeeds ==
  { Feed(RssStartTag, <<>>, <<ThumbItem(th, <<>>, <<>>, au)>>, <<>>) :
      th \in {<<>>, <<ThumbTag(JpgUrl)>>}, au \in SourceAuthors }
  \cup { <<Open("", "html", <<>>), Close("", "html")>> }

AuthorPages ==
  { Page(Null, author, ld) :
      author \in {Null, <<"Jane Doe">>, <<"A", "$", "$">>},
      ld \in {<<>>, <<BadLd>>, <<BadLd, GoodLd>>, <<LdBlock(TRUE, JNull)>>} }

AuthorWebs ==
  { [l \in {ItemLink} |-> r] :
      r \in {Response(TRUE, FALSE, NoPage), Response(FALSE, FALSE, NoPage)}
           \cup {Response(FALSE, TRUE, html) : html \in AuthorPages} }

InitAuthor == InitWith(AuthorFeeds, AuthorWebs)

\* The item rewrite over items that vary the author of the source and the
\* name the article page gives.
SpecAuthor == InitAuthor /\ [][Next]_vars

\* The number of elements pfx:name of an item.
ElementCount(x, pfx, name) ==
  Cardinality({j \in 1..Len(x) : IsElement(x[j]) /\ x[j].pfx = pfx /\ x[j].name = name})

\* The item holds a dc:creator or an author element.
HasAuthorElement(x) ==
  ElementCount(x, "dc", "creator") > 0 \/ ElementCount(x, "", "author") > 0

\* The page the rewrite of item x reads, and whether the rewrite calls
\* ensureAuthor with it.
PageOf(x) == FetchPage(web, LinkOf(x)).html
AuthorApplied(x) ==
  /\ LinkOf(x) # Null
  /\ ~FetchPage(web, LinkOf(x)).thrown
  /\ FetchPage(web, LinkOf(x)).ok
  /\ Requested(x) # {}

CleanSource(x) ==
  /\ HasRootMarker(x)
  /\ HasChannel(x)
  /\ ~HasSnfDeclaration(x)
  /\ ~HasSnfElement(x)

\* The error the self-link guard throws on the document x.
SelfGuardError(x) ==
  Stack(<<"Guard failed: rel=self is ", "dquote">> \o SelfHref(x) \o <<"dquote">>)

\* C22: in the guarded build of a source with an <rss> root, a <channel>
\* and nothing of SmartNews, the assembled document holds the self link of
\* step 4, the self-link guard reads FEED_SELF_URL from it, and the run
\* does not end in the catch handler with the error of that guard.
C22_GuardReadsInsertedLink ==
  CleanSource(src) =>
    /\ pc = "g_guards" =>
         /\ \E i \in 1..Len(xml) : xml[i] = SelfLinkTag
         /\ ~SnfGuardFails(xml)
         /\ SelfHref(xml) = FEED_SELF_URL
    /\ pc = "g_catch" => err # SelfGuardError(xml)

(***************************************************************************)
(* Sources whose channel holds vendor and foreign elements, as containers  *)
(* and self-closing, before and after elements the normalizer is to keep.  *)
(***************************************************************************)
StripHeadFragments ==
  { <<Field("", "title", "raw", <<"t">>)>>,
    <<SelfC("snf", "logo", <<>>, FALSE)>>,
    <<SelfC("foo", "bar", <<>>, TRUE)>>,
    <<Open("foo", "bar", <<>>), Text("x"), Close("foo", "bar")>>,
    <<Open("Media", "group", <<>>), Field("media", "title", "raw", <<"t">>),
      Close("Media", "group")>> }

StripFootFragments ==
  { <<>>,
    <<Open("", "image", <<>>), Text("x"), Close("", "image")>>,
    <<Open("snf", "analytics", <<>>), Text("x"), Close("snf", "analytics")>>,
    <<Open("foo", "bar", <<>>), Text("x"), Close("foo", "bar")>> }

StripFeeds ==
  { Feed(SourceRoot, Concat(h), [i \in 1..n |-> PlainItem(ItemNames[i])], f) :
      h \in SeqsUpTo(StripHeadFragments, MaxFragments),
      n \in 0..ITEM_LIMIT,
      f \in StripFootFragments }
  \cup { <<Open("", "html", <<>>), Close("", "html")>> }

InitStrip == InitWith(StripFeeds, {NoWeb})

\* The normalizer over sources that vary the vendor and foreign elements
\* around the items.
SpecStrip == InitStrip /\ [][Next]_vars

\* The element that starts at token i of x is one the normalizer is to
\* remove: its prefix, in lower case, is outside the whitelist.
IsForeign(x, i) ==
  IsElement(x[i]) /\ x[i].pfx # "" /\ toLowerCase(x[i].pfx) \notin ALLOWED_NS_PREFIXES

\* The last token of the element that starts at token i: the token itself
\* for a self-closing tag or a field, else the closing tag of its name.
ElementEnd(x, i) ==
  IF x[i].k # "open" THEN i
  ELSE LET c == {j \in (i + 1)..Len(x) :
                  x[j].k = "close" /\ x[j].pfx = x[i].pfx /\ x[j].name = x[i].name}
       IN IF c = {} THEN i ELSE CHOOSE j \in c : \A h \in c : j <= h

\* Token j of x lies in an element the normalizer is to remove.
InForeign(x, j) == \E i \in 1..j : IsForeign(x, i) /\ j <= ElementEnd(x, i)

\* The elements of x to keep, the root apart: those without prefix or of a
\* whitelisted prefix that lie outside every element to remove.
KeptElements(x) ==
  {j \in 1..Len(x) :
     /\ IsElement(x[j]) /\ ~InForeign(x, j)
     /\ ~(x[j].pfx = "" /\ toLowerCase(x[j].name) = "rss")}

\* The number of tokens of x equal to t.
Occurrences(x, t) == Cardinality({j \in 1..Len(x) : x[j] = t})

\* The items of x that lie outside every element to remove.
KeptItems(x) ==
  {k \in 1..Len(ItemSpans(x)) : ~InForeign(x, ItemSpans(x)[k][1])}

\* C23: after the normalizer's namespace steps, every item of the source
\* and every element without prefix or of a whitelisted prefix (compared in
\* lower case) that lies outside the removed elements is in the document
\* as it was, also when a self-closing element to remove comes before a
\* closing tag of the same prefix.
C23_StripKeepsTheRest ==
  pc = "selflink" =>
    /\ \A j \in KeptElements(src) :
         Occurrences(xml, src[j]) >=
           Cardinality({h \in KeptElements(src) : src[h] = src[j]})
    /\ \A k \in KeptItems(src) :
         \E h \in 1..Len(MatchItems(xml)) : MatchItems(xml)[h] = MatchItems(src)[k]

(***************************************************************************)
(* Items whose titles hold "$", alone, doubled and before a digit; two     *)
(* items of a feed may have the same text.                                 *)
(***************************************************************************)
DollarTitles ==
  { <<"t">>, <<"Save", " ", "$", "$">>, <<"$", "1">>, <<"t", " ", "$", " ", "t">> }

DollarItems == { TitleItem(form, t) : form \in BodyForms, t \in DollarTitles }

DollarFeeds ==
  { Feed(RssStartTag, <<Field("", "title", "raw", <<"$", "$">>)>>, its,
         <<Open("", "image", <<>>), Text("$"), Close("", "image")>>) :
      its \in SeqsUpTo(DollarItems, ITEM_LIMIT) }
  \cup { <<Open("", "html", <<>>), Close("", "html")>> }

InitDollar == InitWith(DollarFeeds, {NoWeb})

\* The item rewrite over feeds whose items hold "$" in their titles.
SpecDollar == InitDollar /\ [][Next]_vars

\* The tokens of x outside its items.
OutsideItems(x) ==
  SelectSeq([j \in 1..Len(x) |->
               IF \E k \in 1..Len(ItemSpans(x)) :
                    ItemSpans(x)[k][1] <= j /\ j <= ItemSpans(x)[k][2]
               THEN <<>> ELSE <<x[j]>>],
            LAMBDA t : t # <<>>)

\* C24: a turn of the loop of rewriteItems puts the rewritten text of the
\* item it is at into the document as it is, at the place of that item: the
\* item there is the rewrite of the source item, symbol for symbol, also
\* when the text holds "$" or when two items are the same; the other items
\* and what stands outside the items stay as they are.
C24_RewriteInPlace ==
  [][(pc = "rewrite" /\ idx <= Len(items)) =>
       /\ Len(MatchItems(xml')) = Len(items)
       /\ MatchItems(xml')[idx] = rewriteItem(items[idx], web)
       /\ \A j \in 1..Len(items) : j # idx => MatchItems(xml')[j] = MatchItems(xml)[j]
       /\ OutsideItems(xml') = OutsideItems(xml)]_vars

====
